---- MODULE Spec2Model ----
(***************************************************************************)
(* Model of the roadmap ingestion pipeline of server.js: the three         *)
(* endpoints /add-roadmap, /update-roadmap and /new-cycle-roadmap acting   *)
(* on the store tables (profiles, coach_clients, roadmap_strategic_pillars,*)
(* coach_client_week_notes, coaching_tasks, client_metrics) and on the     *)
(* identity provider.  A request handler is one atomic action (requests    *)
(* are handled one after the other in the sequential specifications).      *)
(*                                                                         *)
(* Texts are sequences of one-character strings, so that split, trim,      *)
(* substring, the regular-expression replacements and the ilike pattern    *)
(* are computed character by character as the code computes them.          *)
(***************************************************************************)
EXTENDS Integers, Sequences, FiniteSets, TLC

(***************************************************************************)
(* Bounds of the model.                                                    *)
(***************************************************************************)
\* number of requests of one run
MaxRequests == 3
\* number of requests of one run with failing calls
MaxFaultRequests == 2
\* the requests of a run of the specification of concurrent requests
MaxRaceRequests == 3

(***************************************************************************)
(* Program constants.                                                      *)
(***************************************************************************)
\* actionText.substring(0, 50): the prefix searched by the duplicate check
DupPrefixLen == 50
\* actionText.length > 80 ? actionText.substring(0, 80)... : the title cap
TitleCap == 80
\* total_weeks: 16
TotalWeeks == 16
\* weekActions = [week_1 .. week_4]
WeeksPerMonth == 4
\* words.slice(0, 5)
TitleWords == 5

(***************************************************************************)
(* Text primitives.                                                        *)
(***************************************************************************)
\* a missing id: client_id: null, coachId = null
NoId == 0
\* a missing or empty text: null, undefined and '' are all falsy in the code
NoText == << >>

Rep(c, n) == [i \in 1..n |-> c]

Min(a, b) == IF a < b THEN a ELSE b

\* \s of the regular expressions, and the characters trim() removes
IsSpace(c) == c \in {" ", "\n", "\t"}

\* String.prototype.substring(0, n)
Substring(s, n) == SubSeq(s, 1, Min(n, Len(s)))

\* String.prototype.trim()
Trim(s) ==
  LET keep == {i \in 1..Len(s) : ~IsSpace(s[i])}
  IN IF keep = {} THEN << >>
     ELSE LET lo == CHOOSE i \in keep : \A j \in keep : i <= j
              hi == CHOOSE i \in keep : \A j \in keep : j <= i
          IN SubSeq(s, lo, hi)

\* the k-th smallest element of a set of numbers
Nth(ns, k) == CHOOSE n \in ns : Cardinality({m \in ns : m < n}) = k - 1

\* String.prototype.split('\n'): the lines of a text (at least one), each
\* from after the line break before it to before the next one
SplitLines(s) ==
  LET breaks == {i \in 1..Len(s) : s[i] = "\n"} \cup {0, Len(s) + 1}
  IN [k \in 1..(Cardinality(breaks) - 1) |->
        SubSeq(s, Nth(breaks, k) + 1, Nth(breaks, k + 1) - 1)]

\* a.trim().startsWith('-')
IsDashLine(line) == LET t == Trim(line) IN Len(t) > 0 /\ t[1] = "-"

\* line.replace(/^-\s*/, ''): only a dash in the first column is removed,
\* with the white space that follows it
StripMarker(line) ==
  IF Len(line) = 0 \/ line[1] # "-" THEN line
  ELSE LET rest == {i \in 2..Len(line) : ~IsSpace(line[i])}
       IN IF rest = {} THEN << >>
          ELSE SubSeq(line, CHOOSE i \in rest : \A j \in rest : i <= j, Len(line))

\* s.replace(/\s+\S*$/, ''): removes the last run of white space and what
\* follows it; a text without white space is left alone
BackTrim(s) ==
  LET sp == {i \in 1..Len(s) : IsSpace(s[i])}
  IN IF sp = {} THEN s
     ELSE LET last  == CHOOSE i \in sp : \A j \in sp : j <= i
              start == CHOOSE i \in 1..last :
                         /\ \A k \in i..last : IsSpace(s[k])
                         /\ (i = 1 \/ ~IsSpace(s[i - 1]))
          IN SubSeq(s, 1, start - 1)

Ellipsis == << ".", ".", "." >>

\* the bullets of a week: weekAction.split('\n').filter(dash line), each
\* mapped to action.replace(/^-\s*/, '').trim(), empty texts dropped
ActionTexts(weekAction) ==
  LET lines  == SelectSeq(SplitLines(weekAction), IsDashLine)
      texts  == [i \in 1..Len(lines) |-> Trim(StripMarker(lines[i]))]
      NonEmpty(t) == Len(t) > 0
  IN SelectSeq(texts, NonEmpty)

\* shortTitle of a task: capped at 80 characters, cut back to a whole word
ShortTitle(actionText) ==
  IF Len(actionText) > TitleCap
    THEN BackTrim(Substring(actionText, TitleCap)) \o Ellipsis
    ELSE actionText

\* ilike is case-insensitive
UpperCase == << "A", "B", "C", "D", "E", "X" >>
LowerCase == << "a", "b", "c", "d", "e", "x" >>

Lower(c) ==
  IF \E i \in 1..Len(UpperCase) : UpperCase[i] = c
    THEN LowerCase[CHOOSE i \in 1..Len(UpperCase) : UpperCase[i] = c]
    ELSE c

LowerText(s) == [i \in 1..Len(s) |-> Lower(s[i])]

\* .ilike('title', `%${pat}%`): the title contains pat, ignoring case (the
\* modelled texts contain none of the pattern characters % _ \ *)
ILikeContains(title, pat) ==
  \E i \in 1..(Len(title) + 1) :
    /\ i + Len(pat) - 1 <= Len(title)
    /\ LowerText(SubSeq(title, i, i + Len(pat) - 1)) = LowerText(pat)

\* split(/\s+/) of a trimmed, non-empty text: the runs of characters that
\* are not white space
Words(s) ==
  LET starts == {i \in 1..Len(s) : ~IsSpace(s[i]) /\ (i = 1 \/ IsSpace(s[i - 1]))}
      ends   == {i \in 1..Len(s) : ~IsSpace(s[i]) /\ (i = Len(s) \/ IsSpace(s[i + 1]))}
  IN [k \in 1..Cardinality(starts) |-> SubSeq(s, Nth(starts, k), Nth(ends, k))]

RECURSIVE JoinWords(_)
JoinWords(ws) ==
  IF Len(ws) = 0 THEN << >>
  ELSE IF Len(ws) = 1 THEN ws[1]
  ELSE ws[1] \o << " " >> \o JoinWords(Tail(ws))

\* a title made of the words of all the bullets of the week
getWeekTitleAllBullets(weekAction) ==
  LET dash  == SelectSeq(SplitLines(weekAction), IsDashLine)
      texts == [i \in 1..Len(dash) |-> Trim(StripMarker(Trim(dash[i])))]
      words == Words(JoinWords(texts))
  IN JoinWords(SubSeq(words, 1, Min(TitleWords, Len(words))))
       \o (IF Len(words) > TitleWords THEN Ellipsis ELSE << >>)

\* getWeekShortTitle: the first dash line, marker stripped, five words
getWeekShortTitle(weekAction) ==
  LET dash == SelectSeq(SplitLines(weekAction), IsDashLine)
      actionText == IF Len(dash) = 0 THEN << >> ELSE Trim(StripMarker(dash[1]))
  IN IF Len(actionText) = 0 THEN << >>
     ELSE LET words == Words(actionText)
          IN JoinWords(SubSeq(words, 1, Min(TitleWords, Len(words))))
               \o (IF Len(words) > TitleWords THEN Ellipsis ELSE << >>)

(***************************************************************************)
(* Request payloads.  A payload is the request body after unwrapping:      *)
(*   shape         "new" ({data, plan}), "old" ({validation, ""}), "bad"   *)
(*                 (an object without these keys); what is not an object:  *)
(*                 "undefined", "text" (a non-empty string), "empty" ('')  *)
(*   client_id     data.client_id / validation.client_id                   *)
(*   client_name   data.client_name                                        *)
(*   client_email  data.client_email                                       *)
(*   header_name   <content>.header.client_name                            *)
(*   header_email  <content>.header.email                                  *)
(*   coach_email   the first non-empty coach email of the body             *)
(*   coach_id      body.coach_id                                           *)
(*   cycle_number  body.cycle_number || data.cycle_number                  *)
(*   content       the RoadmapContent: vision, monthly_plan, financials    *)
(* A missing string is "", a missing id or number is 0.                    *)
(***************************************************************************)
T_ab == << "-", " ", "a", "b" >>
T_cd == << "-", " ", "c", "d" >>
NL   == << "\n" >>

\* "- ab\n- cd": two bullets
WkTwo == T_ab \o NL \o T_cd
\* "- Ab": the first bullet again, in another case
WkOne == << "-", " ", "A", "b" >>
\* "intro\n  - ab cd ab cd ab cd": a line without dash, then an indented bullet
WkIndented == << "x", "\n", " ", " " >> \o T_ab \o << " ", "c", "d", " ", "a", "b", " ",
                 "c", "d", " ", "a", "b", " ", "c", "d" >>
\* a bullet of 60 characters: longer than the searched prefix, under the cap
WkMid == << "-", " " >> \o Rep("a", 29) \o << " " >> \o Rep("b", 30)
\* a bullet of 99 characters made of words of nine characters
WkLong == << "-", " " >> \o Rep("a", 9) \o << " " >> \o Rep("b", 9) \o << " " >>
            \o Rep("c", 9) \o << " " >> \o Rep("d", 9) \o << " " >> \o Rep("e", 9)
            \o << " " >> \o Rep("a", 9) \o << " " >> \o Rep("b", 9) \o << " " >>
            \o Rep("c", 9) \o << " " >> \o Rep("d", 9) \o << " " >> \o Rep("e", 9)
\* a bullet of 93 characters: a short word, then one word of 90 characters
WkLongWord == << "-", " ", "a", "b", " " >> \o Rep("x", 90)

NoSection == [present |-> FALSE, current_situation |-> NoText, actions |-> NoText,
              expert_suggestion |-> NoText]
NoVision  == [present |-> FALSE, structure |-> NoSection, acquisition |-> NoSection,
              vision_pilotage |-> NoSection]
NoMonth   == [present |-> FALSE, weeks |-> << NoText, NoText, NoText, NoText >>]
NoPlan    == [present |-> FALSE, months |-> << NoMonth, NoMonth, NoMonth, NoMonth >>]

Section(sit, acts, tip) ==
  [present |-> TRUE, current_situation |-> sit, actions |-> acts, expert_suggestion |-> tip]
Month(w1, w2, w3, w4) == [present |-> TRUE, weeks |-> << w1, w2, w3, w4 >>]
Plan(m1, m2, m3, m4)  == [present |-> TRUE, months |-> << m1, m2, m3, m4 >>]

VisionOne ==
  [present |-> TRUE,
   structure       |-> Section(<< "s" >>, << "a", "\n", "\n", "b" >>, << "t" >>),
   acquisition     |-> Section(<< "q" >>, << "c" >>, NoText),
   vision_pilotage |-> Section(NoText, NoText, << "u" >>)]
VisionTwo ==
  [present |-> TRUE,
   structure       |-> Section(<< "z" >>, << "d" >>, << "v" >>),
   acquisition     |-> NoSection,
   vision_pilotage |-> Section(<< "y" >>, << "e" >>, NoText)]

EmptyMonth == Month(NoText, NoText, NoText, NoText)

\* header.financials; the one-character string "EUR" stands for the euro sign
NoFinancials == [present |-> FALSE, ca |-> NoText, treasury |-> NoText,
                 collaborators |-> NoText, margin |-> NoText]
\* ca "12 EUR", no treasury, collaborators "3", margin "5%"
FinancialsOne == [present |-> TRUE, ca |-> << "1", "2", " ", "EUR" >>, treasury |-> NoText,
                  collaborators |-> << "3" >>, margin |-> << "5", "%" >>]
\* ca "EUR" (nothing left once cleaned), treasury "7,5", no collaborators
FinancialsTwo == [present |-> TRUE, ca |-> << "EUR" >>, treasury |-> << "7", ",", "5" >>,
                  collaborators |-> NoText, margin |-> NoText]

\* ca "abc" (no number) and nothing else
FinancialsBad == [NoFinancials EXCEPT !.present = TRUE, !.ca = << "a", "b", "c" >>]
\* margin "5%" and nothing else
FinancialsRate == [NoFinancials EXCEPT !.present = TRUE, !.margin = << "5", "%" >>]

ContentNames == { "full", "other", "partial", "bare", "mid", "long", "longword", "metrics",
                  "badmetrics", "rateonly" }

\* the RoadmapContent (vision and monthly_plan) of a content name
ContentOf(c) ==
  CASE c = "full" ->
         [vision |-> VisionOne,
          monthly_plan |-> Plan(Month(WkTwo, WkOne, NoText, NoText), EmptyMonth,
                                EmptyMonth, Month(NoText, NoText, NoText, WkIndented)),
          financials |-> FinancialsOne]
    [] c = "other" ->
         [vision |-> VisionTwo,
          monthly_plan |-> Plan(Month(T_cd, NoText, NoText, NoText), EmptyMonth,
                                Month(WkOne, NoText, NoText, NoText), EmptyMonth),
          financials |-> FinancialsTwo]
    [] c = "partial" ->
         [vision |-> NoVision,
          monthly_plan |-> Plan(Month(T_ab, NoText, NoText, NoText), NoMonth,
                                EmptyMonth, EmptyMonth),
          financials |-> NoFinancials]
    [] c = "bare" ->
         [vision |-> NoVision, monthly_plan |-> NoPlan, financials |-> NoFinancials]
    [] c = "metrics" ->
         [vision |-> NoVision, monthly_plan |-> NoPlan, financials |-> FinancialsOne]
    [] c = "badmetrics" ->
         [vision |-> NoVision, monthly_plan |-> NoPlan, financials |-> FinancialsBad]
    [] c = "rateonly" ->
         [vision |-> NoVision, monthly_plan |-> NoPlan, financials |-> FinancialsRate]
    [] c = "mid" ->
         [vision |-> VisionOne,
          monthly_plan |-> Plan(Month(WkMid, NoText, NoText, NoText), EmptyMonth,
                                EmptyMonth, EmptyMonth),
          financials |-> NoFinancials]
    [] c = "long" ->
         [vision |-> VisionOne,
          monthly_plan |-> Plan(Month(WkLong, NoText, NoText, NoText), EmptyMonth,
                                EmptyMonth, EmptyMonth),
          financials |-> NoFinancials]
    [] c = "longword" ->
         [vision |-> VisionOne,
          monthly_plan |-> Plan(Month(WkLongWord, NoText, NoText, NoText), EmptyMonth,
                                EmptyMonth, EmptyMonth),
          financials |-> NoFinancials]

\* the content carries the vision block and all four months
IsFullContent(content) ==
  /\ content.vision.present
  /\ content.monthly_plan.present
  /\ \A m \in 1..4 : content.monthly_plan.months[m].present

(***************************************************************************)
(* The store and the identity provider.  A table is the sequence of its    *)
(* rows in insertion order; the id of a row is its index (no row is ever   *)
(* deleted).                                                               *)
(***************************************************************************)
VARIABLES
  profiles,       \* [email, role, user_id, full_name]
  authUsers,      \* identity provider: [email, password]
  coach_clients,  \* [coach_id, client_id, status, cycle_number, total_weeks, current_week]
  pillars,        \* roadmap_strategic_pillars
  notes,          \* coach_client_week_notes
  tasks,          \* coaching_tasks
  metrics,        \* client_metrics
  last,           \* the last request and its response
  nreq,           \* number of requests handled
  env,            \* process.env: [apiKey, production]
  call,           \* a call of a pure function: [fn, arg, out, done]
  reqs            \* the requests being served: the locals of each handler run

vars == << profiles, authUsers, coach_clients, pillars, notes, tasks, metrics,
           last, nreq, env, call, reqs >>

\* the tables and the identity provider
StoreVars == << profiles, authUsers, coach_clients, pillars, notes, tasks, metrics >>

\* the profiles and identities that exist before the first request: two
\* coaches and a member, each with an account of the identity provider
InitProfiles ==
  << [email |-> "coach@x",  role |-> "coach", user_id |-> 1, full_name |-> "Coach"],
     [email |-> "coach2@x", role |-> "coach", user_id |-> 2, full_name |-> "Coach2"],
     [email |-> "bob@x",    role |-> "user",  user_id |-> 3, full_name |-> "Bob"] >>

InitAuthUsers ==
  << [email |-> "coach@x", password |-> "p0"], [email |-> "coach2@x", password |-> "p0"],
     [email |-> "bob@x", password |-> "p0"] >>

\* an id that no row ever gets
UnknownId == Len(InitProfiles) + MaxRequests + 1

\* no payload and no outcomes: the request of a run that has none
NoPayload == [shape |-> "none"]
NoOutcomes == [createUser |-> "none"]

\* the request (op, p, x, and method, path, apiKey when it came through the
\* middleware), what the response carries (status, error, details, client,
\* cc, coach, cycle, password), the branches taken (handler: a route handler
\* ran; isNewClient, reusedRelation), the outbound calls made (calls), the
\* invocations of sendWelcomeEmail (emails), and whether the request before
\* it was the same request, answered 200 (repeat)
NoRequest == [op |-> "none", p |-> NoPayload, x |-> NoOutcomes, method |-> "", path |-> "",
              apiKey |-> NoText, status |-> 0, error |-> "", details |-> "",
              client |-> NoId, cc |-> NoId, coach |-> NoId, cycle |-> 0, password |-> "",
              handler |-> FALSE, isNewClient |-> FALSE, reusedRelation |-> FALSE,
              calls |-> {}, emails |-> 0, repeat |-> FALSE]

\* the environment of the sequential specifications: the secret is set
ApiSecret == << "k" >>
DefaultEnv == [apiKey |-> ApiSecret, production |-> TRUE]

\* no pure function has been called
NoCall == [fn |-> "none", arg |-> NoText, out |-> NoText, done |-> FALSE]

\* the handler runs that may be in progress at the same time
Runs == {1, 2}

\* the locals of a handler run: where it is (pc: "idle" before a request and
\* after its response, otherwise the await it is suspended at), the request
\* (op, p, x), the response as far as it is determined (resp: coachId in
\* coach, clientProfileId in client, coachClientId in cc, cycleNumber in
\* cycle, the calls made in calls), the profile the client look-up found
\* (found), the bullets still to handle (items) and the metrics row the
\* fallback select found (metric)
Idle == [pc |-> "idle", op |-> "none", p |-> NoPayload, x |-> NoOutcomes, resp |-> NoRequest,
         found |-> NoId, items |-> << >>, metric |-> NoId]

NoRuns == [i \in Runs |-> Idle]

Init ==
  /\ profiles = InitProfiles
  /\ authUsers = InitAuthUsers
  /\ coach_clients = << >>
  /\ pillars = << >>
  /\ notes = << >>
  /\ tasks = << >>
  /\ metrics = << >>
  /\ last = NoRequest
  /\ nreq = 0
  /\ env = DefaultEnv
  /\ call = NoCall
  /\ reqs = NoRuns

\* the ids of the rows of a table that satisfy Test
\* .maybeSingle() / .single(): the id of the only matching row; no row, or
\* more than one (an error, data: null), gives no id
Single(ids) == IF Cardinality(ids) = 1 THEN CHOOSE i \in ids : TRUE ELSE NoId

\* .upsert(row, { onConflict: key }): the row with the same key is
\* overwritten, otherwise the row is inserted
Upsert(table, row, hit) ==
  IF hit = {} THEN Append(table, row)
  ELSE [i \in 1..Len(table) |-> IF i \in hit THEN row ELSE table[i]]

\* onConflict: 'coach_client_id,pillar_type'
PillarKey(r) == << r.coach_client_id, r.pillar_type >>
\* a conflict key without the week number
WeekKeyOfRelation(r) == << r.coach_client_id >>

\* onConflict: 'coach_client_id,week_number'
WeekKey(r) == << r.coach_client_id, r.week_number >>
\* onConflict: 'user_id'
UserKey(r) == r.user_id

\* a batch upsert, or the same upserts issued one after the other
RECURSIVE UpsertPillars(_, _)
UpsertPillars(table, rows) ==
  IF Len(rows) = 0 THEN table
  ELSE UpsertPillars(Upsert(table, Head(rows),
                            {i \in 1..Len(table) :
                               PillarKey(table[i]) = PillarKey(Head(rows))}),
                     Tail(rows))

RECURSIVE UpsertNotes(_, _)
UpsertNotes(table, rows) ==
  IF Len(rows) = 0 THEN table
  ELSE UpsertNotes(Upsert(table, Head(rows),
                          {i \in 1..Len(table) : WeekKey(table[i]) = WeekKey(Head(rows))}),
                   Tail(rows))

(***************************************************************************)
(* Roadmap synchronizer: the rows built from a RoadmapContent.             *)
(***************************************************************************)
\* expert_tip: ... || 'Aucune suggestion'
NoSuggestion == << "Aucune suggestion" >>

NonBlank(line) == Len(Trim(line)) > 0

\* one pillar row: problem || '', actions split into non-blank lines,
\* expert_suggestion || 'Aucune suggestion'
PillarRow(cc, ptype, title, sec) ==
  [coach_client_id |-> cc,
   pillar_type     |-> ptype,
   title           |-> title,
   problem         |-> sec.current_situation,
   actions         |-> IF sec.actions = NoText THEN << >>
                       ELSE SelectSeq(SplitLines(sec.actions), NonBlank),
   expert_tip      |-> IF sec.expert_suggestion = NoText THEN NoSuggestion
                       ELSE sec.expert_suggestion]

\* the three pillars of a vision block, in the order the code writes them
PillarRows(cc, vision) ==
  << PillarRow(cc, "operations",  "Structure & Operations", vision.structure),
     PillarRow(cc, "acquisition", "Acquisition & Vente",    vision.acquisition),
     PillarRow(cc, "vision",      "Vision & Pilotage",      vision.vision_pilotage) >>

\* weekNumber = monthIndex * 4 + weekOffset + 1
WeekNumber(monthIndex, weekOffset) == monthIndex * WeeksPerMonth + weekOffset + 1

\* the weeks of one month (none when the month is missing: `continue`)
MonthWeeks(plan, m) ==
  IF plan.months[m].present
    THEN [w \in 1..WeeksPerMonth |->
            [week_number |-> WeekNumber(m - 1, w - 1), action |-> plan.months[m].weeks[w]]]
    ELSE << >>

\* the (weekNumber, weekAction) pairs of a monthly plan, in loop order
WeekList(plan) ==
  MonthWeeks(plan, 1) \o MonthWeeks(plan, 2) \o MonthWeeks(plan, 3) \o MonthWeeks(plan, 4)

\* aiTitles?.[weekNumber - 1] || getWeekShortTitle(weekAction)
shortWeekTitle(aiTitles, wk) ==
  IF wk.week_number <= Len(aiTitles) /\ aiTitles[wk.week_number] # NoText
    THEN aiTitles[wk.week_number]
    ELSE getWeekShortTitle(wk.action)

\* one week-note row
WeekNoteRow(cc, aiTitles, wk) ==
  [coach_client_id |-> cc, week_number |-> wk.week_number,
   comment |-> shortWeekTitle(aiTitles, wk)]

\* the week-note rows of a plan for a relation, in loop order
RECURSIVE WeekNoteRows(_, _, _)
WeekNoteRows(cc, aiTitles, weeks) ==
  IF Len(weeks) = 0 THEN << >>
  ELSE << WeekNoteRow(cc, aiTitles, Head(weeks)) >>
         \o WeekNoteRows(cc, aiTitles, Tail(weeks))

\* the searched prefix of the duplicate check: actionText.substring(0, 50)
DupPrefix(actionText) == Substring(actionText, DupPrefixLen)

\* the bullets of a list of weeks in loop order, each with its week, its
\* text, the title of its task and the prefix its duplicate check searches
RECURSIVE WeekActions(_)
WeekActions(weeks) ==
  IF Len(weeks) = 0 THEN << >>
  ELSE LET texts == ActionTexts(Head(weeks).action)
       IN [i \in 1..Len(texts) |->
             [week_number |-> Head(weeks).week_number, text |-> texts[i],
              title |-> ShortTitle(texts[i]), prefix |-> DupPrefix(texts[i])]]
          \o WeekActions(Tail(weeks))

TaskRow(coachId, clientId, item) ==
  [coach_id |-> coachId, client_id |-> clientId, title |-> item.title,
   week_number |-> item.week_number, status |-> "pending", priority |-> "medium"]

\* add-roadmap: taskRows, one row per bullet, no look-up of existing tasks
RECURSIVE TaskRows(_, _, _)
TaskRows(coachId, clientId, items) ==
  IF Len(items) = 0 THEN << >>
  ELSE << TaskRow(coachId, clientId, Head(items)) >>
         \o TaskRows(coachId, clientId, Tail(items))

\* the duplicate check of update-roadmap and new-cycle-roadmap:
\* .eq('client_id').eq('week_number').ilike('title', '%' + prefix + '%')
TaskExists(table, clientId, item) ==
  \E i \in 1..Len(table) :
    /\ table[i].client_id = clientId
    /\ table[i].week_number = item.week_number
    /\ ILikeContains(table[i].title, item.prefix)

\* the bullets inserted one after the other, each after its own check
RECURSIVE InsertTasksChecked(_, _, _, _)
InsertTasksChecked(table, coachId, clientId, items) ==
  IF Len(items) = 0 THEN table
  ELSE InsertTasksChecked(IF TaskExists(table, clientId, Head(items)) THEN table
                          ELSE Append(table, TaskRow(coachId, clientId, Head(items))),
                          coachId, clientId, Tail(items))

(***************************************************************************)
(* Value parsers.  A parsed number is the text of its digits; null is the  *)
(* empty text and NaN is the text NaN.                                     *)
(***************************************************************************)
Digits == { "0", "1", "2", "3", "4", "5", "6", "7", "8", "9" }
NaN == << "NaN" >>

\* value.replace(/[...]/g, ''): the characters of `drop` removed
RemoveChars(s, drop) == LET Keep(c) == c \notin drop IN SelectSeq(s, Keep)

\* the index after the run of digits that starts at i
DigitRunEnd(s, i) ==
  LET non == {k \in i..Len(s) : s[k] \notin Digits}
  IN IF non = {} THEN Len(s) + 1 ELSE CHOOSE k \in non : \A j \in non : k <= j

\* parseFloat: the longest prefix [sign] digits [. digits], NaN without digit
parseFloat(s) ==
  LET i0 == IF Len(s) > 0 /\ s[1] \in {"-", "+"} THEN 2 ELSE 1
      e1 == DigitRunEnd(s, i0)
      hasDot == e1 <= Len(s) /\ s[e1] = "."
      e2 == IF hasDot THEN DigitRunEnd(s, e1 + 1) ELSE e1
      nFrac == IF hasDot THEN e2 - e1 - 1 ELSE 0
  IN IF (e1 - i0) + nFrac = 0 THEN NaN
     ELSE SubSeq(s, 1, IF nFrac = 0 THEN e1 - 1 ELSE e2 - 1)

\* parseCurrency: euro sign, white space and commas removed, then parseFloat
parseCurrency(value) ==
  IF value = NoText THEN NoText
  ELSE LET cleaned == Trim(RemoveChars(value, {"EUR", " ", "\n", "\t", ","}))
       IN IF cleaned = NoText THEN NoText ELSE parseFloat(cleaned)

\* parsePercentage: percent sign and white space removed, then parseFloat
parsePercentage(value) ==
  IF value = NoText THEN NoText
  ELSE LET cleaned == Trim(RemoveChars(value, {"%", " ", "\n", "\t"}))
       IN IF cleaned = NoText THEN NoText ELSE parseFloat(cleaned)

\* parseInt(value) || null: the leading digits; NaN and 0 give null
parseIntOrNull(value) ==
  LET t == Trim(value)
      i0 == IF Len(t) > 0 /\ t[1] \in {"-", "+"} THEN 2 ELSE 1
      e1 == DigitRunEnd(t, i0)
      IsZero(c) == c = "0"
  IN IF e1 = i0 THEN NoText
     ELSE IF SelectSeq(SubSeq(t, i0, e1 - 1), IsZero) = SubSeq(t, i0, e1 - 1) THEN NoText
     ELSE SubSeq(t, 1, e1 - 1)

\* metricsData after the null values are deleted (a deleted key is NoText)
MetricsData(cc, clientId, financials) ==
  [coach_client_id |-> cc, client_id |-> clientId, week_number |-> 1,
   revenue         |-> parseCurrency(financials.ca),
   cash_in_bank    |-> parseCurrency(financials.treasury),
   clients_count   |-> parseIntOrNull(financials.collaborators),
   conversion_rate |-> parsePercentage(financials.margin)]

\* header.financials is present and
\* revenue !== null || cashFlow !== null || clientsCount !== null
HasMetrics(financials) ==
  /\ financials.present
  /\ \/ parseCurrency(financials.ca) # NoText
     \/ parseCurrency(financials.treasury) # NoText
     \/ parseIntOrNull(financials.collaborators) # NoText

\* an update of a row with metricsData: only the keys it carries are set
MetricKeys == { "revenue", "cash_in_bank", "clients_count", "conversion_rate" }

MergeMetric(old, new) ==
  [k \in DOMAIN old |-> IF k \in MetricKeys /\ new[k] = NoText THEN old[k] ELSE new[k]]

\* the rows of (coach_client_id, week 1)
MetricsOf(table, cc) ==
  {i \in 1..Len(table) : WeekKey(table[i]) = << cc, 1 >>}

\* every row of the conflict key merged with metricsData
MergeAll(table, cc, new) ==
  [i \in 1..Len(table) |->
     IF i \in MetricsOf(table, cc) THEN MergeMetric(table[i], new) ELSE table[i]]

\* the metrics stage: upsert on (coach_client_id, week_number); when the
\* store answers 42P10, select by (coach_client_id, week 1), then update the
\* row found or insert; any other error writes nothing
WriteMetrics(table, cc, clientId, financials, outcome) ==
  IF ~HasMetrics(financials) \/ outcome = "error" THEN table
  ELSE IF MetricsOf(table, cc) = {}
         \/ (outcome = "42P10" /\ Single(MetricsOf(table, cc)) = NoId)
    THEN Append(table, MetricsData(cc, clientId, financials))
  ELSE MergeAll(table, cc, MetricsData(cc, clientId, financials))

(***************************************************************************)
(* Outcomes of the external calls of one request:                          *)
(*   createUser     auth.admin.createUser: "ok", "e401" (status 401), "err"*)
(*   trigger        the database trigger has created the profile of the    *)
(*                  new identity before the handler upserts it             *)
(*   profileErr     the profile upsert returns an error                    *)
(*   pwErr          auth.admin.updateUserById returns an error             *)
(*   relationErr    the coach_clients insert returns an error              *)
(*   password       generatePassword()                                     *)
(*   ai             the completion service: "unset" (no OPENAI_API_KEY),   *)
(*                  "network" (fetch throws), "status" (response not ok),  *)
(*                  "unparsable" (JSON.parse throws), "notitles" (titles   *)
(*                  is no array), "ok" (titles is the array aiTitles)      *)
(*   aiTitles       the titles array of the reply                          *)
(*   pillarErr      the pillar types whose write the store rejects         *)
(*   noteErr        the week numbers whose week-note write it rejects      *)
(*   taskErr        the week numbers whose task inserts it rejects         *)
(*   metricsUpsert  the client_metrics upsert: "ok", "42P10", "error"      *)
(***************************************************************************)
AllFine ==
  [createUser |-> "ok", trigger |-> FALSE, profileErr |-> FALSE, pwErr |-> FALSE,
   relationErr |-> FALSE, password |-> "p1", ai |-> "ok", aiTitles |-> << >>,
   pillarErr |-> {}, noteErr |-> {}, taskErr |-> {}, metricsUpsert |-> "ok"]

\* the outcomes explored: all calls succeed, or one of them deviates
ExtOutcomes ==
  { AllFine,
    [AllFine EXCEPT !.createUser = "e401"],
    [AllFine EXCEPT !.createUser = "err"],
    [AllFine EXCEPT !.trigger = TRUE],
    [AllFine EXCEPT !.profileErr = TRUE],
    [AllFine EXCEPT !.pwErr = TRUE],
    [AllFine EXCEPT !.relationErr = TRUE],
    [AllFine EXCEPT !.password = "p2"] }

\* replies of generateWeekTitlesOpenAI: sixteen titles, and fewer titles
\* one of which is empty
SixteenTitles == [i \in 1..TotalWeeks |-> << "T" >>]
FewTitles == << << "U" >>, NoText, << "V" >> >>

\* the outcomes of the calls of the synchronization
SyncOutcomes ==
  { AllFine,
    [AllFine EXCEPT !.aiTitles = SixteenTitles],
    [AllFine EXCEPT !.aiTitles = FewTitles],
    [AllFine EXCEPT !.metricsUpsert = "42P10"],
    [AllFine EXCEPT !.metricsUpsert = "error"] }

(***************************************************************************)
(* Payload normalizer and identity resolver.                               *)
(***************************************************************************)
isRoadmapDataNew(p) == p.shape = "new"
isRoadmapDataOld(p) == p.shape = "old"

\* 'data' in data throws a TypeError when data is not an object
Throws(p) == p.shape \in {"undefined", "text", "empty"}

\* the message of that TypeError
InMessage(p) ==
  CASE p.shape = "undefined" -> "Cannot use 'in' operator to search for 'data' in undefined"
    [] p.shape = "text"      -> "Cannot use 'in' operator to search for 'data' in abc"
    [] OTHER                 -> "Cannot use 'in' operator to search for 'data' in "

\* `${client_name.toLowerCase().replace(/\s+/g, '.')}@client.temp`
PlaceholderEmail(name) ==
  CASE name = "Ann" -> "ann@client.temp"
    [] name = "Bob" -> "bob@client.temp"
    [] OTHER -> "client@client.temp"

\* add-roadmap: clientData of the two shapes, the header e-mail fallback and
\* the generated e-mail; the old shape carries no client name
ClientDataAdd(p) ==
  LET name   == IF isRoadmapDataNew(p) THEN p.client_name ELSE ""
      email0 == IF isRoadmapDataNew(p) THEN p.client_email ELSE p.header_email
      email1 == IF email0 = "" /\ p.header_email # "" THEN p.header_email ELSE email0
      email2 == IF email1 = "" /\ name # "" THEN PlaceholderEmail(name) ELSE email1
  IN [client_id |-> p.client_id, client_name |-> name, client_email |-> email2]

\* update-roadmap and new-cycle-roadmap: the same without generated e-mail
ClientData(p) ==
  LET name   == IF isRoadmapDataNew(p) THEN p.client_name ELSE ""
      email0 == IF isRoadmapDataNew(p) THEN p.client_email ELSE p.header_email
      email1 == IF email0 = "" /\ p.header_email # "" THEN p.header_email ELSE email0
  IN [client_id |-> p.client_id, client_name |-> name, client_email |-> email1]

ByEmail(table, email) == {i \in 1..Len(table) : table[i].email = email}
ById(table, id)       == {i \in 1..Len(table) : i = id}

\* add-roadmap: the coach by e-mail (any role is fetched, then the role is
\* tested), then by body.coach_id
ResolveCoachAdd(profs, p) ==
  LET byEmail == IF p.coach_email # "" THEN Single(ByEmail(profs, p.coach_email)) ELSE NoId
      byId    == IF p.coach_id # NoId THEN Single(ById(profs, p.coach_id)) ELSE NoId
  IN IF byEmail # NoId /\ profs[byEmail].role = "coach" THEN byEmail
     ELSE IF byId # NoId /\ profs[byId].role = "coach" THEN p.coach_id
     ELSE NoId

\* a coach look-up that does not test the role
ResolveCoachAnyRole(profs, p) ==
  IF p.coach_email # "" /\ Single(ByEmail(profs, p.coach_email)) # NoId
    THEN Single(ByEmail(profs, p.coach_email))
    ELSE IF p.coach_id # NoId THEN Single(ById(profs, p.coach_id)) ELSE NoId

\* new-cycle-roadmap: the coach by e-mail among the profiles of role coach,
\* then by body.coach_id
ResolveCoachNewCycle(profs, p) ==
  LET coaches == {i \in ByEmail(profs, p.coach_email) : profs[i].role = "coach"}
      byEmail == IF p.coach_email # "" THEN Single(coaches) ELSE NoId
      byId    == IF p.coach_id # NoId THEN Single(ById(profs, p.coach_id)) ELSE NoId
  IN IF byEmail # NoId THEN byEmail
     ELSE IF byId # NoId /\ profs[byId].role = "coach" THEN p.coach_id
     ELSE NoId

\* add-roadmap: the client by id when the payload carries an id, otherwise
\* by e-mail
FindClientAdd(profs, cd) ==
  IF cd.client_id # NoId THEN Single(ById(profs, cd.client_id))
  ELSE Single(ByEmail(profs, cd.client_email))

\* a client look-up by e-mail that falls back on the id
FindClientByEmailThenId(profs, cd) ==
  IF cd.client_email # "" /\ Single(ByEmail(profs, cd.client_email)) # NoId
    THEN Single(ByEmail(profs, cd.client_email))
    ELSE Single(ById(profs, cd.client_id))

\* update-roadmap: the client by e-mail only
FindClientUpdate(profs, cd) ==
  IF cd.client_email # "" THEN Single(ByEmail(profs, cd.client_email)) ELSE NoId

\* new-cycle-roadmap: the client by id, then by e-mail
FindClientNewCycle(profs, cd) ==
  LET byId == IF cd.client_id # NoId THEN Single(ById(profs, cd.client_id)) ELSE NoId
  IN IF byId # NoId THEN byId ELSE Single(ByEmail(profs, cd.client_email))

\* the identity provider refuses a second identity for an e-mail
EmailRegistered(auth, email) == \E i \in 1..Len(auth) : auth[i].email = email

(***************************************************************************)
(* Handlers.  A handler maps the store and a payload to the store after    *)
(* the request and the response.                                           *)
(***************************************************************************)
Store ==
  [profiles |-> profiles, authUsers |-> authUsers, coach_clients |-> coach_clients,
   pillars |-> pillars, notes |-> notes, tasks |-> tasks, metrics |-> metrics]

Response(op, p, status, error) ==
  [NoRequest EXCEPT !.op = op, !.p = p, !.status = status, !.error = error,
                    !.handler = TRUE]

\* the catch block of a route handler: 500 with the message of the exception
\* in details, whatever NODE_ENV is
Thrown(op, p) ==
  [Response(op, p, 500, "Internal server error") EXCEPT !.details = InMessage(p)]

\* the outbound calls of the synchronization: the store, and the completion
\* service when the content has a monthly plan and OPENAI_API_KEY is set
SyncCalls(content, x) ==
  {"store"} \cup (IF content.monthly_plan.present /\ x.ai # "unset" THEN {"openai"} ELSE {})

\* the cycle_number of a coach_clients row inserted without one
DefaultCycleNumber == 1

NewRelation(coachId, clientId, cycleNumber) ==
  [coach_id |-> coachId, client_id |-> clientId, status |-> "active",
   cycle_number |-> cycleNumber, total_weeks |-> TotalWeeks, current_week |-> 1]

\* the active relations of a pair
ActiveOfPair(ccs, coachId, clientId) ==
  {i \in 1..Len(ccs) : /\ ccs[i].coach_id = coachId
                       /\ ccs[i].client_id = clientId
                       /\ ccs[i].status = "active"}

\* the active relations of a client
ActiveOfClient(ccs, clientId) ==
  {i \in 1..Len(ccs) : ccs[i].client_id = clientId /\ ccs[i].status = "active"}

\* add-roadmap up to the look-up of coach and client: the response when the
\* request is rejected, otherwise coachId and the profile found
AddLookup(S, p) ==
  LET cd == ClientDataAdd(p)
      Fail(resp) == [done |-> TRUE, resp |-> resp, coach |-> NoId, found |-> NoId]
  IN IF Throws(p) THEN Fail(Thrown("add", p))
     ELSE IF ~isRoadmapDataNew(p) /\ ~isRoadmapDataOld(p)
       THEN Fail(Response("add", p, 400,
                   "Invalid data format. Expected format with data/plan or validation/\"\""))
     ELSE IF cd.client_name = ""
       THEN Fail(Response("add", p, 400, "client_name or company_name is required"))
     ELSE IF cd.client_email = ""
       THEN Fail(Response("add", p, 400, "client_email is required"))
     ELSE [done |-> FALSE, resp |-> Response("add", p, 200, ""),
           coach |-> ResolveCoachAdd(S.profiles, p),
           found |-> FindClientAdd(S.profiles, cd)]

\* add-roadmap from the look-up to the client profile, for the coachId and
\* the profile that the look-up gave
AddIdentityFor(S, p, x, coachId, found) ==
  LET cd      == ClientDataAdd(p)
      FailAfter(status, error, calls) ==
        [S |-> S, resp |-> [Response("add", p, status, error) EXCEPT !.calls = calls],
         done |-> TRUE]
      Go(S1, clientId, isNew, calls) ==
        [S |-> S1, done |-> FALSE,
         resp |-> [Response("add", p, 200, "") EXCEPT
                     !.client = clientId, !.coach = coachId, !.isNewClient = isNew,
                     !.password = x.password, !.calls = calls]]
  IN IF found = NoId
       THEN \* a new client: identity, then profile
            IF x.createUser = "e401"
              THEN FailAfter(500, "Authentication error with Supabase",
                             {"store", "createUser"})
            ELSE IF x.createUser = "err" \/ EmailRegistered(S.authUsers, cd.client_email)
              THEN FailAfter(500, "Failed to create user", {"store", "createUser"})
            ELSE
              LET auth1 == Append(S.authUsers,
                                  [email |-> cd.client_email, password |-> x.password])
                  uid   == Len(auth1)
                  prof1 == IF x.trigger
                             THEN Append(S.profiles, [email |-> cd.client_email,
                                    role |-> "user", user_id |-> uid, full_name |-> ""])
                             ELSE S.profiles
                  prof2 == Upsert(prof1, [email |-> cd.client_email, role |-> "user",
                                    user_id |-> uid, full_name |-> cd.client_name],
                                  {i \in 1..Len(prof1) : UserKey(prof1[i]) = uid})
              IN IF x.profileErr
                   THEN [S |-> [S EXCEPT !.authUsers = auth1, !.profiles = prof1],
                         resp |-> [Response("add", p, 500, "Failed to create profile")
                                     EXCEPT !.calls = {"store", "createUser"}],
                         done |-> TRUE]
                   ELSE Go([S EXCEPT !.authUsers = auth1, !.profiles = prof2],
                           CHOOSE i \in 1..Len(prof2) : prof2[i].user_id = uid, TRUE,
                           {"store", "createUser"})
     ELSE \* an existing client: new password and profile update
          LET uid   == S.profiles[found].user_id
              auth1 == IF uid # NoId /\ ~x.pwErr
                         THEN [S.authUsers EXCEPT ![uid].password = x.password]
                         ELSE S.authUsers
              prof1 == IF cd.client_name # ""
                         THEN [S.profiles EXCEPT ![found].full_name = cd.client_name]
                         ELSE S.profiles
          IN Go([S EXCEPT !.authUsers = auth1, !.profiles = prof1], found, FALSE,
                {"store"} \cup (IF uid # NoId THEN {"updateUserById"} ELSE {}))

\* add-roadmap up to the client profile: the store, the response so far and
\* whether the response has been sent
AddIdentity(S, p, x) ==
  LET l == AddLookup(S, p)
  IN IF l.done THEN [S |-> S, resp |-> l.resp, done |-> TRUE]
     ELSE AddIdentityFor(S, p, x, l.coach, l.found)

\* a look-up that never finds the active relation of the pair
NoRelationFound(S, coachId, clientId) == {NoId}

\* the relations add-roadmap may get from .eq(active).limit(1): any active
\* relation of the pair, none when there is no coach or no such relation
RelationChoices(S, coachId, clientId) ==
  IF coachId = NoId \/ ActiveOfPair(S.coach_clients, coachId, clientId) = {}
    THEN {NoId}
    ELSE ActiveOfPair(S.coach_clients, coachId, clientId)

\* add-roadmap: the tasks stage, a batch insert of taskRows
AddTasks(table, coachId, clientId, plan) ==
  table \o TaskRows(coachId, clientId, WeekActions(WeekList(plan)))

\* the pillars stage and the week-notes stage, skipped without their block
SyncPillars(table, cc, vision) ==
  IF vision.present THEN UpsertPillars(table, PillarRows(cc, vision)) ELSE table

SyncNotes(table, cc, plan, aiTitles) ==
  IF plan.present THEN UpsertNotes(table, WeekNoteRows(cc, aiTitles, WeekList(plan)))
  ELSE table

\* the titles of the reply, whatever the outcome of the call
generateWeekTitlesUnchecked(x) == x.aiTitles

\* generateWeekTitlesOpenAI: the titles of the reply when the call succeeds
\* and the reply carries a non-empty titles array, otherwise null
generateWeekTitlesOpenAI(x) ==
  IF x.ai = "ok" /\ Len(x.aiTitles) > 0 THEN x.aiTitles ELSE << >>

\* a loop that stops at the first rejected pillar
AcceptedBeforeError(rows, err) ==
  LET bad == {i \in 1..Len(rows) : rows[i].pillar_type \in err}
  IN IF bad = {} THEN rows ELSE SubSeq(rows, 1, Nth(bad, 1) - 1)

\* the rows of a sequence of writes that the store does not reject
AcceptedPillars(rows, err) ==
  LET Ok(r) == r.pillar_type \notin err IN SelectSeq(rows, Ok)

AcceptedWeeks(rows, err) ==
  LET Ok(r) == r.week_number \notin err IN SelectSeq(rows, Ok)

\* update-roadmap and new-cycle-roadmap: one upsert per pillar and per week;
\* a rejected upsert is logged and the loop goes on
SyncPillarsEach(table, cc, vision, err) ==
  IF vision.present THEN UpsertPillars(table, AcceptedPillars(PillarRows(cc, vision), err))
  ELSE table

SyncNotesEach(table, cc, plan, aiTitles, err) ==
  IF plan.present
    THEN UpsertNotes(table, AcceptedWeeks(WeekNoteRows(cc, aiTitles, WeekList(plan)), err))
    ELSE table

\* add-roadmap: the three batches sent together (Promise.all), pillars, week
\* notes and tasks; a rejected batch writes nothing and is logged
AddContent(S, cc, coachId, client, content, x) ==
  LET pil == IF x.pillarErr # {} THEN S.pillars
             ELSE SyncPillars(S.pillars, cc, content.vision)
      nts == IF x.noteErr # {} THEN S.notes
             ELSE SyncNotes(S.notes, cc, content.monthly_plan,
                            generateWeekTitlesOpenAI(x))
      tsk == IF content.monthly_plan.present /\ x.taskErr = {}
               THEN AddTasks(S.tasks, coachId, client, content.monthly_plan)
               ELSE S.tasks
  IN [S EXCEPT !.pillars = pil, !.notes = nts, !.tasks = tsk]

\* a synchronization that does not look whether there is a relation
AddSyncUnguarded(r, p, x, existing) ==
  [S |-> AddContent(r.S, existing, r.resp.coach, r.resp.client, p.content, x),
   resp |-> r.resp]

\* add-roadmap from the relation on: reuse or insert the relation, then the
\* pillars, week notes and tasks (one batch each: a rejected batch writes
\* nothing and is logged) and the metrics
AddSync(r, p, x, existing) ==
  LET S       == r.S
      coachId == r.resp.coach
      client  == r.resp.client
      content == p.content
  IN IF coachId = NoId THEN [S |-> S, resp |-> r.resp]
     ELSE IF existing = NoId /\ x.relationErr
       THEN [S |-> S,
             resp |-> [Response("add", p, 500, "Failed to create coach-client relation")
                         EXCEPT !.calls = r.resp.calls]]
     ELSE
       LET ccs == IF existing # NoId THEN S.coach_clients
                  ELSE Append(S.coach_clients,
                              NewRelation(coachId, client, DefaultCycleNumber))
           cc  == IF existing # NoId THEN existing ELSE Len(ccs)
           S1  == AddContent(S, cc, coachId, client, content, x)
           met == WriteMetrics(S.metrics, cc, client, content.financials, x.metricsUpsert)
       IN [S |-> [S1 EXCEPT !.coach_clients = ccs, !.metrics = met],
           resp |-> [r.resp EXCEPT !.cc = cc, !.reusedRelation = (existing # NoId),
                                   !.calls = r.resp.calls \cup SyncCalls(content, x)]]

\* the store and the response replace the state
Commit(S, resp) ==
  /\ profiles' = S.profiles
  /\ authUsers' = S.authUsers
  /\ coach_clients' = S.coach_clients
  /\ pillars' = S.pillars
  /\ notes' = S.notes
  /\ tasks' = S.tasks
  /\ metrics' = S.metrics
  /\ last' = [resp EXCEPT !.repeat = (last.op = resp.op /\ last.p = resp.p
                                          /\ last.status = 200)]
  /\ nreq' = nreq + 1
  /\ UNCHANGED << env, call, reqs >>

\* POST /add-roadmap; the handler has no call of sendWelcomeEmail, so the
\* response keeps emails = 0 and calls never holds the e-mail service
AddRoadmap(p, x) ==
  /\ nreq < MaxRequests
  /\ \E r \in {AddIdentity(Store, p, x)} :
       IF r.done THEN Commit(r.S, [r.resp EXCEPT !.x = x])
       ELSE \E existing \in RelationChoices(r.S, r.resp.coach, r.resp.client) :
              \E t \in {AddSync(r, p, x, existing)} : Commit(t.S, [t.resp EXCEPT !.x = x])

\* update-roadmap and new-cycle-roadmap: pillars, week notes, tasks (each
\* after its duplicate check) and metrics written one after the other
SyncSequential(S, cc, coachId, clientId, content, x) ==
  LET pil == SyncPillarsEach(S.pillars, cc, content.vision, x.pillarErr)
      nts == SyncNotesEach(S.notes, cc, content.monthly_plan,
                           generateWeekTitlesOpenAI(x), x.noteErr)
      tsk == IF content.monthly_plan.present /\ coachId # NoId
               THEN InsertTasksChecked(S.tasks, coachId, clientId,
                      AcceptedWeeks(WeekActions(WeekList(content.monthly_plan)), x.taskErr))
               ELSE S.tasks
      met == WriteMetrics(S.metrics, cc, clientId, content.financials, x.metricsUpsert)
  IN [S EXCEPT !.pillars = pil, !.notes = nts, !.tasks = tsk, !.metrics = met]

\* update-roadmap up to the profile update: the client by e-mail and its
\* active relation by .maybeSingle(); the response when the request is
\* rejected, otherwise the response so far and the store with the profile
\* updated
UpdateLookup(S, p, x) ==
  LET cd       == ClientData(p)
      client   == FindClientUpdate(S.profiles, cd)
      relation == Single(ActiveOfClient(S.coach_clients, client))
      Fail(status, error) ==
        [S |-> S, resp |-> Response("update", p, status, error), done |-> TRUE]
      FailAfter(status, error, calls) ==
        [S |-> S, resp |-> [Response("update", p, status, error) EXCEPT !.calls = calls],
         done |-> TRUE]
  IN IF Throws(p)
       THEN [S |-> S, resp |-> Thrown("update", p), done |-> TRUE]
     ELSE IF ~isRoadmapDataNew(p) /\ ~isRoadmapDataOld(p)
       THEN Fail(400, "Invalid data format. Expected format with data/plan or validation/\"\"")
     ELSE IF client = NoId
       THEN FailAfter(404, "Client not found",
                      IF cd.client_email # "" THEN {"store"} ELSE {})
     ELSE IF relation = NoId
       THEN FailAfter(404, "Coach-client relation not found", {"store"})
     ELSE
       LET coachId == S.coach_clients[relation].coach_id
           prof1   == IF cd.client_name # ""
                        THEN [S.profiles EXCEPT ![client].full_name = cd.client_name]
                        ELSE S.profiles
       IN [S |-> [S EXCEPT !.profiles = prof1], done |-> FALSE,
           resp |-> [Response("update", p, 200, "") EXCEPT
                       !.client = client, !.cc = relation, !.coach = coachId,
                       !.calls = SyncCalls(p.content, x)]]

\* PUT /update-roadmap: the look-up, the profile update and the
\* synchronization
UpdateResult(S, p, x) ==
  LET l == UpdateLookup(S, p, x)
  IN IF l.done THEN [S |-> l.S, resp |-> l.resp]
     ELSE [S |-> SyncSequential(l.S, l.resp.cc, l.resp.coach, l.resp.client, p.content, x),
           resp |-> l.resp]

UpdateRoadmap(p, x) ==
  /\ nreq < MaxRequests
  /\ \E t \in {UpdateResult(Store, p, x)} : Commit(t.S, [t.resp EXCEPT !.x = x])

\* the greatest element of a non-empty set of numbers
Max(ns) == CHOOSE n \in ns : \A m \in ns : m <= n

\* a cycle number counted from the number of relations of the pair
CycleNumberByCount(ccs, coachId, clientId, requested) ==
  IF requested # 0 THEN requested
  ELSE Cardinality({j \in 1..Len(ccs) : /\ ccs[j].coach_id = coachId
                                        /\ ccs[j].client_id = clientId}) + 1

\* new-cycle-roadmap: the requested cycle number, otherwise one more than
\* the greatest cycle_number of the pair (order desc, limit 1), otherwise 2
CycleNumber(ccs, coachId, clientId, requested) ==
  LET existingCycles == {ccs[i].cycle_number :
                           i \in {j \in 1..Len(ccs) : /\ ccs[j].coach_id = coachId
                                                      /\ ccs[j].client_id = clientId}}
  IN IF requested # 0 THEN requested
     ELSE IF existingCycles # {} /\ Max(existingCycles) # 0 THEN Max(existingCycles) + 1
     ELSE 2

\* an insert that also closes the earlier cycles of the pair
InsertCycleClosingPrior(ccs, coachId, clientId, cycleNumber) ==
  Append([i \in 1..Len(ccs) |->
            IF ccs[i].coach_id = coachId /\ ccs[i].client_id = clientId
              THEN [ccs[i] EXCEPT !.status = "completed"] ELSE ccs[i]],
         NewRelation(coachId, clientId, cycleNumber))

\* the insert of the relation of the new cycle: no other row is touched
InsertCycle(ccs, coachId, clientId, cycleNumber) ==
  Append(ccs, NewRelation(coachId, clientId, cycleNumber))

\* new-cycle-roadmap up to the look-up of coach and client, which must both
\* exist: the response when the request is rejected, otherwise the response
\* so far
NewCycleLookup(S, p, x) ==
  LET cd      == ClientData(p)
      coachId == ResolveCoachNewCycle(S.profiles, p)
      client  == FindClientNewCycle(S.profiles, cd)
      Fail(status, error) ==
        [resp |-> Response("newcycle", p, status, error), done |-> TRUE]
      FailAfter(status, error, calls) ==
        [resp |-> [Response("newcycle", p, status, error) EXCEPT !.calls = calls],
         done |-> TRUE]
  IN IF Throws(p)
       THEN [resp |-> Thrown("newcycle", p), done |-> TRUE]
     ELSE IF ~isRoadmapDataNew(p) /\ ~isRoadmapDataOld(p)
       THEN Fail(400, "Invalid data format. Expected format with data/plan or validation/\"\"")
     ELSE IF cd.client_email = ""
       THEN Fail(400, "client_email is required")
     ELSE IF coachId = NoId
       THEN FailAfter(400, "coach_email or coach_id is required to create a new cycle",
                      IF p.coach_email # "" \/ p.coach_id # NoId THEN {"store"} ELSE {})
     ELSE IF client = NoId
       THEN FailAfter(404, "Client not found. Use /add-roadmap to create a new client first.",
                      {"store"})
     ELSE [done |-> FALSE,
           resp |-> [Response("newcycle", p, 200, "") EXCEPT
                       !.client = client, !.coach = coachId,
                       !.calls = SyncCalls(p.content, x)]]

\* the response to a rejected insert of the relation of the new cycle
NewCycleInsertFailed(resp) ==
  [resp EXCEPT !.status = 500, !.calls = {"store"}, !.client = NoId, !.coach = NoId,
               !.error = "Failed to create coach-client relation for new cycle"]

\* POST /new-cycle-roadmap: the look-up, the cycle number, the insert of
\* the relation, then the synchronization
NewCycleResult(S, p, x) ==
  LET l == NewCycleLookup(S, p, x)
  IN IF l.done THEN [S |-> S, resp |-> l.resp]
     ELSE IF x.relationErr THEN [S |-> S, resp |-> NewCycleInsertFailed(l.resp)]
     ELSE
       LET coachId == l.resp.coach
           client  == l.resp.client
           cycleNumber == CycleNumber(S.coach_clients, coachId, client, p.cycle_number)
           ccs == InsertCycle(S.coach_clients, coachId, client, cycleNumber)
           cc  == Len(ccs)
           S1  == [S EXCEPT !.coach_clients = ccs]
       IN [S |-> SyncSequential(S1, cc, coachId, client, p.content, x),
           resp |-> [l.resp EXCEPT !.cc = cc, !.cycle = cycleNumber]]

NewCycleRoadmap(p, x) ==
  /\ nreq < MaxRequests
  /\ \E t \in {NewCycleResult(Store, p, x)} : Commit(t.S, [t.resp EXCEPT !.x = x])

(***************************************************************************)
(* The requests explored.  A request is a payload and the outcomes of the  *)
(* external calls made while it is served.  Payloads differ from a         *)
(* reference payload in the client, the coach, the cycle number or the     *)
(* content; outcomes differ from AllFine in one call.                      *)
(***************************************************************************)
BasePayload ==
  [shape |-> "new", client_id |-> NoId, client_name |-> "Ann", client_email |-> "ann@x",
   header_name |-> "", header_email |-> "", coach_email |-> "coach@x", coach_id |-> NoId,
   cycle_number |-> 0, content |-> ContentOf("full")]

\* the existing profile bob@x as the client
BobPayload == [BasePayload EXCEPT !.client_name = "Bob", !.client_email = "bob@x"]
\* the id of profile bob@x with an e-mail of no profile
BobIdPayload == [BobPayload EXCEPT !.client_id = 3, !.client_email = "zed@x"]

\* a legacy payload: the client in the header of the content
LegacyPayload ==
  [BasePayload EXCEPT !.shape = "old", !.client_name = "", !.client_email = "",
                      !.header_name = "Ann", !.header_email = "ann@x"]

Request(p, x) == [p |-> p, x |-> x]
With(ps, xs) == {Request(p, x) : p \in ps, x \in xs}

\* a caller knows the ids of rows that exist, and may send an id of no row
IdKnown(id) == id = NoId \/ id = UnknownId \/ id \in 1..Len(profiles)

(***************************************************************************)
(* Spec: sequential requests that differ in the identities they name.      *)
(***************************************************************************)
AddRequests ==
  With({ BasePayload,
         [BasePayload EXCEPT !.client_id = UnknownId],
         BobPayload,
         [BobPayload EXCEPT !.client_id = UnknownId],
         BobIdPayload,
         [BasePayload EXCEPT !.coach_email = "", !.coach_id = 2],
         [BasePayload EXCEPT !.coach_email = ""],
         LegacyPayload }, {AllFine})
  \cup With({BasePayload}, ExtOutcomes)
  \cup With({BobPayload}, {[AllFine EXCEPT !.pwErr = TRUE]})

UpdateRequests ==
  With({ BasePayload, BobPayload, BobIdPayload }, {AllFine})

NewCycleRequests ==
  With({ BasePayload,
         BobPayload,
         [BobPayload EXCEPT !.cycle_number = 3],
         [BasePayload EXCEPT !.client_email = ""],
         [BasePayload EXCEPT !.coach_email = ""],
         [BasePayload EXCEPT !.coach_email = "bob@x"] }, {AllFine})
  \cup With({BasePayload}, {[AllFine EXCEPT !.relationErr = TRUE]})

Next ==
  \/ \E r \in AddRequests : IdKnown(r.p.client_id) /\ AddRoadmap(r.p, r.x)
  \/ \E r \in UpdateRequests : IdKnown(r.p.client_id) /\ UpdateRoadmap(r.p, r.x)
  \/ \E r \in NewCycleRequests : IdKnown(r.p.client_id) /\ NewCycleRoadmap(r.p, r.x)

Spec == Init /\ [][Next]_vars

(***************************************************************************)
(* SpecSync: sequential requests for one client and one coach that differ  *)
(* in the content they carry and in the outcomes of the synchronization.   *)
(***************************************************************************)
ContentPayloads(cs) == {[BasePayload EXCEPT !.content = ContentOf(c)] : c \in cs}

SyncAddRequests ==
  With(ContentPayloads({"full", "other", "partial", "longword", "badmetrics", "rateonly"}),
       {AllFine})
  \cup With({BasePayload}, SyncOutcomes)
  \cup With(ContentPayloads({"other"}), {[AllFine EXCEPT !.metricsUpsert = "42P10"]})

SyncUpdateRequests ==
  With(ContentPayloads({"full", "other", "partial", "mid", "long", "longword"}), {AllFine})
  \cup With({BasePayload}, SyncOutcomes)
  \cup With(ContentPayloads({"other"}), {[AllFine EXCEPT !.metricsUpsert = "42P10"]})

SyncNewCycleRequests ==
  With(ContentPayloads({"full", "partial"}), {AllFine})

NextSync ==
  \/ \E r \in SyncAddRequests : AddRoadmap(r.p, r.x)
  \/ \E r \in SyncUpdateRequests : UpdateRoadmap(r.p, r.x)
  \/ \E r \in SyncNewCycleRequests : NewCycleRoadmap(r.p, r.x)

SpecSync == Init /\ [][NextSync]_vars

(***************************************************************************)
(* SpecFaults: sequential requests for one client and one coach, served    *)
(* while the store rejects writes or the completion service fails.         *)
(***************************************************************************)
\* the store rejects the first pillar, week 2, the tasks of week 1, the
\* metrics, or all of them
WriteFaults ==
  { [AllFine EXCEPT !.pillarErr = {"operations"}],
    [AllFine EXCEPT !.noteErr = {2}],
    [AllFine EXCEPT !.taskErr = {1}],
    [AllFine EXCEPT !.metricsUpsert = "error"],
    [AllFine EXCEPT !.pillarErr = {"operations", "vision"}, !.noteErr = {1, 16},
                    !.taskErr = {1, 2}, !.metricsUpsert = "error"] }

\* the completion service: no key, an exception, a status that is not ok
\* (with or without titles in the body), a body that does not parse, a body
\* without titles array, an empty titles array (AllFine), sixteen titles
AiOutcomes ==
  { [AllFine EXCEPT !.ai = "unset"],
    [AllFine EXCEPT !.ai = "network"],
    [AllFine EXCEPT !.ai = "status"],
    [AllFine EXCEPT !.ai = "status", !.aiTitles = SixteenTitles],
    [AllFine EXCEPT !.ai = "unparsable"],
    [AllFine EXCEPT !.ai = "notitles"],
    AllFine,
    [AllFine EXCEPT !.aiTitles = SixteenTitles] }

FaultAddRequests ==
  With({BasePayload}, WriteFaults \cup {[AllFine EXCEPT !.ai = "network"],
                                        [AllFine EXCEPT !.aiTitles = SixteenTitles]})

FaultUpdateRequests ==
  With({BasePayload}, WriteFaults \cup AiOutcomes)
  \cup With(ContentPayloads({"other"}), {[AllFine EXCEPT !.noteErr = {1}]})

FaultNewCycleRequests ==
  With({BasePayload}, {[AllFine EXCEPT !.pillarErr = {"acquisition"}, !.noteErr = {3}],
                       [AllFine EXCEPT !.ai = "unparsable"]})

NextFaults ==
  \/ \E r \in FaultAddRequests : nreq < MaxFaultRequests /\ AddRoadmap(r.p, r.x)
  \/ \E r \in FaultUpdateRequests : nreq < MaxFaultRequests /\ UpdateRoadmap(r.p, r.x)
  \/ \E r \in FaultNewCycleRequests : nreq < MaxFaultRequests /\ NewCycleRoadmap(r.p, r.x)

SpecFaults == Init /\ [][NextFaults]_vars

(***************************************************************************)
(* SpecRace: requests served at the same time.  A handler runs until it    *)
(* awaits the store or the identity provider, and the runs take turns at   *)
(* these awaits.  One step is one call, or several calls in a row;         *)
(* update-roadmap and new-cycle-roadmap write the pillars and the week     *)
(* notes in the step before their first task look-up, which changes no     *)
(* table's history since the writes of different tables commute.  The      *)
(* response is sent in the step of the last call.                          *)
(***************************************************************************)
\* the tables after a step
Write(S) ==
  /\ profiles' = S.profiles
  /\ authUsers' = S.authUsers
  /\ coach_clients' = S.coach_clients
  /\ pillars' = S.pillars
  /\ notes' = S.notes
  /\ tasks' = S.tasks
  /\ metrics' = S.metrics

\* a run starts on a request
Started(op, p, x) == [Idle EXCEPT !.op = op, !.p = p, !.x = x]

\* run i is suspended at its next await
Await(i, run) == reqs' = [reqs EXCEPT ![i] = run] /\ last' = last

\* run i sends its response and ends; its locals stay for inspection
Answer(i, run, resp) ==
  /\ reqs' = [reqs EXCEPT ![i] = [run EXCEPT !.pc = "idle", !.resp = resp]]
  /\ last' = [resp EXCEPT !.x = run.x,
                          !.repeat = (last.op = resp.op /\ last.p = resp.p
                                        /\ last.status = 200)]

\* where a run goes when the bullets `items` are left
AfterItems(items) == IF Len(items) = 0 THEN "metrics" ELSE "tasks"

\* the bullets update-roadmap and new-cycle-roadmap turn into tasks
ItemsOf(content, coachId, x) ==
  IF content.monthly_plan.present /\ coachId # NoId
    THEN AcceptedWeeks(WeekActions(WeekList(content.monthly_plan)), x.taskErr)
    ELSE << >>

\* POST /add-roadmap arrives: validation and the look-up of coach and client
StartAdd(i, p, x) ==
  /\ nreq < MaxRaceRequests /\ reqs[i].pc = "idle"
  /\ nreq' = nreq + 1
  /\ \E l \in {AddLookup(Store, p)} :
       IF l.done THEN Answer(i, Started("add", p, x), l.resp)
       ELSE Await(i, [Started("add", p, x) EXCEPT
                        !.pc = "identity", !.found = l.found,
                        !.resp = [l.resp EXCEPT !.coach = l.coach]])
  /\ UNCHANGED << StoreVars, env, call >>

\* a run that looks the client up once more before it creates the identity
\* and answers 409 when the profile has appeared in the meantime
AddClientRechecked(S, p, x, coachId, found) ==
  IF found = NoId /\ FindClientAdd(S.profiles, ClientDataAdd(p)) # NoId
    THEN [S |-> S, done |-> TRUE,
          resp |-> [Response("add", p, 409, "Client is being created")
                      EXCEPT !.calls = {"store"}]]
    ELSE AddIdentityFor(S, p, x, coachId, found)

\* what the run does with the result of its look-up, however old it is
AddClientResult(S, p, x, coachId, found) == AddIdentityFor(S, p, x, coachId, found)

\* add-roadmap: createUser and the profile upsert for a client the look-up
\* did not find, the password and profile update for one it found; without
\* coach the response follows
AddClient(i) ==
  /\ reqs[i].pc = "identity"
  /\ \E r \in {AddClientResult(Store, reqs[i].p, reqs[i].x, reqs[i].resp.coach,
                               reqs[i].found)} :
       /\ Write(r.S)
       /\ IF r.done \/ r.resp.coach = NoId THEN Answer(i, reqs[i], r.resp)
          ELSE Await(i, [reqs[i] EXCEPT !.pc = "relation", !.resp = r.resp])
  /\ UNCHANGED << nreq, env, call >>

\* add-roadmap: the select of an active relation of the pair
AddSelectRelation(i) ==
  /\ reqs[i].pc = "relation"
  /\ \E existing \in RelationChoices(Store, reqs[i].resp.coach, reqs[i].resp.client) :
       Await(i, [reqs[i] EXCEPT
                   !.pc = IF existing = NoId THEN "insert" ELSE "content",
                   !.resp = [@ EXCEPT !.cc = existing,
                                      !.reusedRelation = (existing # NoId)]])
  /\ UNCHANGED << StoreVars, nreq, env, call >>

\* add-roadmap: the insert of the relation when the select found none
AddInsertRelation(i) ==
  /\ reqs[i].pc = "insert"
  /\ IF reqs[i].x.relationErr
       THEN /\ Answer(i, reqs[i],
                      [Response("add", reqs[i].p, 500,
                                "Failed to create coach-client relation")
                         EXCEPT !.calls = reqs[i].resp.calls])
            /\ UNCHANGED StoreVars
       ELSE /\ coach_clients' = Append(coach_clients,
                                  NewRelation(reqs[i].resp.coach, reqs[i].resp.client,
                                              DefaultCycleNumber))
            /\ Await(i, [reqs[i] EXCEPT !.pc = "content",
                                        !.resp = [@ EXCEPT !.cc = Len(coach_clients) + 1]])
            /\ UNCHANGED << profiles, authUsers, pillars, notes, tasks, metrics >>
  /\ UNCHANGED << nreq, env, call >>

\* add-roadmap: the batches of pillars, week notes and tasks
AddBatches(i) ==
  /\ reqs[i].pc = "content"
  /\ Write(AddContent(Store, reqs[i].resp.cc, reqs[i].resp.coach, reqs[i].resp.client,
                      reqs[i].p.content, reqs[i].x))
  /\ Await(i, [reqs[i] EXCEPT
                 !.pc = "metrics",
                 !.resp = [@ EXCEPT !.calls = @ \cup SyncCalls(reqs[i].p.content,
                                                               reqs[i].x)]])
  /\ UNCHANGED << nreq, env, call >>

\* PUT /update-roadmap arrives: validation, the look-up of the client and of
\* its active relation, the profile update, the pillars and the week notes
StartUpdate(i, p, x) ==
  /\ nreq < MaxRaceRequests /\ reqs[i].pc = "idle"
  /\ nreq' = nreq + 1
  /\ \E l \in {UpdateLookup(Store, p, x)} :
       IF l.done
         THEN Answer(i, Started("update", p, x), l.resp) /\ UNCHANGED StoreVars
         ELSE \E items \in {ItemsOf(p.content, l.resp.coach, x)} :
                /\ Write([l.S EXCEPT
                            !.pillars = SyncPillarsEach(l.S.pillars, l.resp.cc,
                                                        p.content.vision, x.pillarErr),
                            !.notes = SyncNotesEach(l.S.notes, l.resp.cc,
                                                    p.content.monthly_plan,
                                                    generateWeekTitlesOpenAI(x),
                                                    x.noteErr)])
                /\ Await(i, [Started("update", p, x) EXCEPT
                               !.pc = AfterItems(items), !.items = items,
                               !.resp = l.resp])
  /\ UNCHANGED << env, call >>

\* POST /new-cycle-roadmap arrives: validation and the look-up of coach and
\* client
StartNewCycle(i, p, x) ==
  /\ nreq < MaxRaceRequests /\ reqs[i].pc = "idle"
  /\ nreq' = nreq + 1
  /\ \E l \in {NewCycleLookup(Store, p, x)} :
       IF l.done THEN Answer(i, Started("newcycle", p, x), l.resp)
       ELSE Await(i, [Started("newcycle", p, x) EXCEPT !.pc = "cycle", !.resp = l.resp])
  /\ UNCHANGED << StoreVars, env, call >>

\* new-cycle-roadmap: the cycle number, read from the rows of the pair when
\* the request gives none
ReadCycleNumber(i) ==
  /\ reqs[i].pc = "cycle"
  /\ Await(i, [reqs[i] EXCEPT
                 !.pc = "insertCycle",
                 !.resp = [@ EXCEPT !.cycle = CycleNumber(coach_clients, reqs[i].resp.coach,
                                                          reqs[i].resp.client,
                                                          reqs[i].p.cycle_number)]])
  /\ UNCHANGED << StoreVars, nreq, env, call >>

\* new-cycle-roadmap: the insert of the relation with the cycle number, then
\* the pillars and the week notes of the new relation
InsertNewCycle(i) ==
  /\ reqs[i].pc = "insertCycle"
  /\ IF reqs[i].x.relationErr
       THEN Answer(i, reqs[i], NewCycleInsertFailed(reqs[i].resp)) /\ UNCHANGED StoreVars
       ELSE \E ccs \in {InsertCycle(coach_clients, reqs[i].resp.coach,
                                    reqs[i].resp.client, reqs[i].resp.cycle)} :
            \E items \in {ItemsOf(reqs[i].p.content, reqs[i].resp.coach, reqs[i].x)} :
              /\ Write([Store EXCEPT
                          !.coach_clients = ccs,
                          !.pillars = SyncPillarsEach(pillars, Len(ccs),
                                                      reqs[i].p.content.vision,
                                                      reqs[i].x.pillarErr),
                          !.notes = SyncNotesEach(notes, Len(ccs),
                                                  reqs[i].p.content.monthly_plan,
                                                  generateWeekTitlesOpenAI(reqs[i].x),
                                                  reqs[i].x.noteErr)])
              /\ Await(i, [reqs[i] EXCEPT !.pc = AfterItems(items), !.items = items,
                                          !.resp = [@ EXCEPT !.cc = Len(ccs)]])
  /\ UNCHANGED << nreq, env, call >>

\* update-roadmap and new-cycle-roadmap: the look-up of a task of the
\* client and the week whose title contains the bullet
SelectExistingTasks(i) ==
  /\ reqs[i].pc = "tasks"
  /\ IF TaskExists(tasks, reqs[i].resp.client, Head(reqs[i].items))
       THEN Await(i, [reqs[i] EXCEPT !.pc = AfterItems(Tail(reqs[i].items)),
                                     !.items = Tail(@)])
       ELSE Await(i, [reqs[i] EXCEPT !.pc = "taskInsert"])
  /\ UNCHANGED << StoreVars, nreq, env, call >>

\* an insert that looks for the task once more
InsertTaskIfAbsent(table, coachId, clientId, item) ==
  IF TaskExists(table, clientId, item) THEN table
  ELSE Append(table, TaskRow(coachId, clientId, item))

\* the insert of the task of a bullet
InsertTask(table, coachId, clientId, item) ==
  Append(table, TaskRow(coachId, clientId, item))

\* update-roadmap and new-cycle-roadmap: the insert of the task when the
\* look-up found none
InsertNewTask(i) ==
  /\ reqs[i].pc = "taskInsert"
  /\ tasks' = InsertTask(tasks, reqs[i].resp.coach, reqs[i].resp.client,
                         Head(reqs[i].items))
  /\ Await(i, [reqs[i] EXCEPT !.pc = AfterItems(Tail(reqs[i].items)), !.items = Tail(@)])
  /\ UNCHANGED << profiles, authUsers, coach_clients, pillars, notes, metrics,
                  nreq, env, call >>

\* the metrics stage of the three handlers: the upsert; when the store
\* answers 42P10 the fallback follows, otherwise the response
UpsertMetrics(i) ==
  /\ reqs[i].pc = "metrics"
  /\ IF HasMetrics(reqs[i].p.content.financials) /\ reqs[i].x.metricsUpsert = "42P10"
       THEN Await(i, [reqs[i] EXCEPT !.pc = "metricsSelect"]) /\ metrics' = metrics
       ELSE /\ metrics' = WriteMetrics(metrics, reqs[i].resp.cc, reqs[i].resp.client,
                                       reqs[i].p.content.financials,
                                       reqs[i].x.metricsUpsert)
            /\ Answer(i, reqs[i], reqs[i].resp)
  /\ UNCHANGED << profiles, authUsers, coach_clients, pillars, notes, tasks,
                  nreq, env, call >>

\* the fallback: the select of the metrics row of (coach_client_id, week 1)
SelectMetrics(i) ==
  /\ reqs[i].pc = "metricsSelect"
  /\ Await(i, [reqs[i] EXCEPT !.pc = "metricsWrite",
                              !.metric = Single(MetricsOf(metrics, reqs[i].resp.cc))])
  /\ UNCHANGED << StoreVars, nreq, env, call >>

\* the fallback: the update of the row the select found, otherwise an insert
MetricsFallbackWrite(table, found, new) ==
  IF found = NoId THEN Append(table, new)
  ELSE [table EXCEPT ![found] = MergeMetric(@, new)]

UpdateOrInsertMetrics(i) ==
  /\ reqs[i].pc = "metricsWrite"
  /\ metrics' = MetricsFallbackWrite(metrics, reqs[i].metric,
                                     MetricsData(reqs[i].resp.cc, reqs[i].resp.client,
                                                 reqs[i].p.content.financials))
  /\ Answer(i, reqs[i], reqs[i].resp)
  /\ UNCHANGED << profiles, authUsers, coach_clients, pillars, notes, tasks,
                  nreq, env, call >>

\* the requests that race: a new client and an existing one for
\* add-roadmap, one client for the two other routes
RaceAddRequests ==
  With({ [BasePayload EXCEPT !.content = ContentOf("partial")],
         [BobPayload EXCEPT !.content = ContentOf("partial")] }, {AllFine})
  \cup With({[BobPayload EXCEPT !.content = ContentOf("bare")]},
            {[AllFine EXCEPT !.relationErr = TRUE]})

\* client_metrics has no unique constraint on (coach_client_id,
\* week_number): every upsert of metrics is answered 42P10
RaceUpdateRequests ==
  With({[BobPayload EXCEPT !.content = ContentOf("mid")]}, {AllFine})
  \cup With({[BobPayload EXCEPT !.content = ContentOf("metrics")]},
            {[AllFine EXCEPT !.metricsUpsert = "42P10"]})

RaceNewCycleRequests ==
  With({ [BobPayload EXCEPT !.content = ContentOf("partial")] }, {AllFine})
  \cup With({[BobPayload EXCEPT !.content = ContentOf("bare")]},
            {[AllFine EXCEPT !.relationErr = TRUE]})

NextRace ==
  \E i \in Runs :
    \/ \E r \in RaceAddRequests : StartAdd(i, r.p, r.x)
    \/ AddClient(i)
    \/ AddSelectRelation(i)
    \/ AddInsertRelation(i)
    \/ AddBatches(i)
    \/ \E r \in RaceUpdateRequests : StartUpdate(i, r.p, r.x)
    \/ \E r \in RaceNewCycleRequests : StartNewCycle(i, r.p, r.x)
    \/ ReadCycleNumber(i)
    \/ InsertNewCycle(i)
    \/ SelectExistingTasks(i)
    \/ InsertNewTask(i)
    \/ UpsertMetrics(i)
    \/ SelectMetrics(i)
    \/ UpdateOrInsertMetrics(i)

SpecRace == Init /\ [][NextRace]_vars

(***************************************************************************)
(* SpecPure: one call of a pure function of the server, on an argument     *)
(* drawn from a set of texts.                                              *)
(***************************************************************************)
\* "- Call 10 leads" and "- Draft proposal"
L_Call  == << "-", " ", "C", "a", "l", "l", " ", "1", "0", " ", "l", "e", "a", "d", "s" >>
L_Draft == << "-", " ", "D", "r", "a", "f", "t", " ", "p", "r", "o", "p", "o", "s", "a", "l" >>
\* "- a b c d e x": six words
L_Six   == << "-", " ", "a", " ", "b", " ", "c", " ", "d", " ", "e", " ", "x" >>
\* "- a b  c d e ": five words, two blanks in a row and a blank at the end
L_Five  == << "-", " ", "a", " ", "b", " ", " ", "c", " ", "d", " ", "e", " " >>
\* "  - ab cd": an indented bullet
L_Indented == << " ", " " >> \o T_ab \o << " ", "c", "d" >>
\* "intro": no dash; "-": a marker alone; "": an empty line
L_Intro == << "i", "n", "t", "r", "o" >>
L_Dash  == << "-" >>

TitleLines == { L_Call, L_Draft, L_Six, L_Five, L_Indented, L_Intro, L_Dash, NoText }

\* week action blocks of one or two lines
TitleBlocks == TitleLines \cup {a \o NL \o b : a \in TitleLines, b \in TitleLines}

\* "1 234,56 EUR", "", "12 EUR", "12.5", "EUR", "abc", "-3", "1,5", " 7 ", "1.2.3"
CurrencyTexts ==
  { << "1", " ", "2", "3", "4", ",", "5", "6", " ", "EUR" >>, NoText,
    << "1", "2", " ", "EUR" >>, << "1", "2", ".", "5" >>, << "EUR" >>,
    << "a", "b", "c" >>, << "-", "3" >>, << "1", ",", "5" >>, << " ", "7", " " >>,
    << "1", ".", "2", ".", "3" >> }

\* "12%", "", "5 %", "%", "12.5%", "1 234,56 EUR"
PercentageTexts ==
  { << "1", "2", "%" >>, NoText, << "5", " ", "%" >>, << "%" >>,
    << "1", "2", ".", "5", "%" >>,
    << "1", " ", "2", "3", "4", ",", "5", "6", " ", "EUR" >> }

PureCalls ==
  {[NoCall EXCEPT !.fn = "getWeekShortTitle", !.arg = a] : a \in TitleBlocks}
  \cup {[NoCall EXCEPT !.fn = "parseCurrency", !.arg = a] : a \in CurrencyTexts}
  \cup {[NoCall EXCEPT !.fn = "parsePercentage", !.arg = a] : a \in PercentageTexts}

InitPure ==
  /\ profiles = InitProfiles
  /\ authUsers = InitAuthUsers
  /\ coach_clients = << >>
  /\ pillars = << >>
  /\ notes = << >>
  /\ tasks = << >>
  /\ metrics = << >>
  /\ last = NoRequest
  /\ nreq = 0
  /\ env = DefaultEnv
  /\ call \in PureCalls
  /\ reqs = NoRuns

Returned(out) ==
  /\ call' = [call EXCEPT !.out = out, !.done = TRUE]
  /\ UNCHANGED << profiles, authUsers, coach_clients, pillars, notes, tasks, metrics,
                  last, nreq, env, reqs >>

CallWeekShortTitle ==
  /\ ~call.done /\ call.fn = "getWeekShortTitle"
  /\ Returned(getWeekShortTitle(call.arg))

CallParseCurrency ==
  /\ ~call.done /\ call.fn = "parseCurrency"
  /\ Returned(parseCurrency(call.arg))

CallParsePercentage ==
  /\ ~call.done /\ call.fn = "parsePercentage"
  /\ Returned(parsePercentage(call.arg))

NextPure == CallWeekShortTitle \/ CallParseCurrency \/ CallParsePercentage

SpecPure == InitPure /\ [][NextPure]_vars

(***************************************************************************)
(* SpecHttp: requests as they reach the server.  A request has a method, a *)
(* path, an X-API-KEY header (empty when missing) and a body; the body is  *)
(* an object, an array (item is its first element, "undefined" when the    *)
(* array is empty) or an object with the key roadmap_data (item is its     *)
(* value).  The server's secret and NODE_ENV are fixed when it starts.     *)
(***************************************************************************)
\* a middleware that does not compare the header with the secret
authMiddlewareNoCompare(q, e) ==
  IF Trim(q.apiKey) = NoText /\ ~(q.method = "GET" /\ q.path = "/")
    THEN [pass |-> FALSE, status |-> 401, error |-> "Missing X-API-KEY header"]
    ELSE [pass |-> TRUE, status |-> 0, error |-> ""]

\* the auth middleware: GET / passes; then the header, the secret of the
\* server and their comparison, both trimmed
authMiddleware(q, e) ==
  IF q.method = "GET" /\ q.path = "/" THEN [pass |-> TRUE, status |-> 0, error |-> ""]
  ELSE IF Trim(q.apiKey) = NoText
    THEN [pass |-> FALSE, status |-> 401, error |-> "Missing X-API-KEY header"]
  ELSE IF Trim(e.apiKey) = NoText
    THEN [pass |-> FALSE, status |-> 500,
          error |-> "Server configuration error: X_API_KEY or API_KEY must be set in .env file"]
  ELSE IF Trim(q.apiKey) # Trim(e.apiKey)
    THEN [pass |-> FALSE, status |-> 403, error |-> "Invalid API key"]
  ELSE [pass |-> TRUE, status |-> 0, error |-> ""]

\* the body unwrapping of the three handlers: body[0] of an array, the body
\* itself when it has data and plan, body.roadmap_data when that is truthy,
\* otherwise the body (here an object with the only key roadmap_data)
Unwrap(body) ==
  IF body.form = "wrapper" /\ body.item.shape = "empty"
    THEN [body.item EXCEPT !.shape = "bad"]
    ELSE body.item

\* the route of a request
Route(q) ==
  CASE q.method = "GET"  /\ q.path = "/"                  -> "health"
    [] q.method = "POST" /\ q.path = "/add-roadmap"       -> "add"
    [] q.method = "PUT"  /\ q.path = "/update-roadmap"    -> "update"
    [] q.method = "POST" /\ q.path = "/new-cycle-roadmap" -> "newcycle"
    [] OTHER                                              -> "none"

\* the request a response answers
Sent(resp, q) ==
  [resp EXCEPT !.x = q.x, !.method = q.method, !.path = q.path, !.apiKey = q.apiKey]

\* the middleware answers: no route handler runs
HttpRejected(q) ==
  /\ nreq < MaxRequests
  /\ ~authMiddleware(q, env).pass
  /\ Commit(Store, Sent([NoRequest EXCEPT !.op = "middleware",
                                          !.status = authMiddleware(q, env).status,
                                          !.error = authMiddleware(q, env).error], q))

\* GET /: res.send('API OK')
HealthCheck(q) ==
  /\ nreq < MaxRequests
  /\ authMiddleware(q, env).pass /\ Route(q) = "health"
  /\ Commit(Store, Sent([NoRequest EXCEPT !.op = "health", !.status = 200,
                                          !.handler = TRUE], q))

\* no route of the application matches: Express answers 404
HttpNoRoute(q) ==
  /\ nreq < MaxRequests
  /\ authMiddleware(q, env).pass /\ Route(q) = "none"
  /\ Commit(Store, Sent([NoRequest EXCEPT !.op = "noroute", !.status = 404], q))

HttpAdd(q) ==
  /\ nreq < MaxRequests
  /\ authMiddleware(q, env).pass /\ Route(q) = "add"
  /\ \E r \in {AddIdentity(Store, Unwrap(q.body), q.x)} :
       IF r.done THEN Commit(r.S, Sent(r.resp, q))
       ELSE \E existing \in RelationChoices(r.S, r.resp.coach, r.resp.client) :
              \E t \in {AddSync(r, Unwrap(q.body), q.x, existing)} :
                 Commit(t.S, Sent(t.resp, q))

HttpUpdate(q) ==
  /\ nreq < MaxRequests
  /\ authMiddleware(q, env).pass /\ Route(q) = "update"
  /\ \E t \in {UpdateResult(Store, Unwrap(q.body), q.x)} : Commit(t.S, Sent(t.resp, q))

HttpNewCycle(q) ==
  /\ nreq < MaxRequests
  /\ authMiddleware(q, env).pass /\ Route(q) = "newcycle"
  /\ \E t \in {NewCycleResult(Store, Unwrap(q.body), q.x)} : Commit(t.S, Sent(t.resp, q))

\* what is not an object: body[0] of [], and the strings 'abc' and ''
NotAnObject(shape) ==
  [BasePayload EXCEPT !.shape = shape, !.client_name = "", !.client_email = "",
                      !.coach_email = "", !.content = ContentOf("bare")]

HttpBodies ==
  { [form |-> "object",  item |-> [BobPayload EXCEPT !.content = ContentOf("partial")]],
    [form |-> "object",  item |-> [BobPayload EXCEPT !.shape = "bad"]],
    [form |-> "array",   item |-> [BobPayload EXCEPT !.content = ContentOf("partial")]],
    [form |-> "array",   item |-> NotAnObject("undefined")],
    [form |-> "array",   item |-> LegacyPayload],
    [form |-> "wrapper", item |-> [BobPayload EXCEPT !.content = ContentOf("partial")]],
    [form |-> "wrapper", item |-> NotAnObject("text")],
    [form |-> "wrapper", item |-> NotAnObject("empty")] }

\* a missing header, the secret, the secret between blanks, blanks, another key
HttpKeys == { NoText, ApiSecret, << " " >> \o ApiSecret \o << " " >>, << " " >>, << "w" >> }

HttpRoutes ==
  { [method |-> "POST", path |-> "/add-roadmap"],
    [method |-> "PUT",  path |-> "/update-roadmap"],
    [method |-> "POST", path |-> "/new-cycle-roadmap"],
    [method |-> "GET",  path |-> "/add-roadmap"],
    [method |-> "GET",  path |-> "/"] }

HttpRequest(route, key, body) ==
  [method |-> route.method, path |-> route.path, apiKey |-> key, body |-> body,
   x |-> AllFine]

\* requests with the secret carry every body; the others carry one body
HttpRequests ==
  {HttpRequest(r, ApiSecret, b) : r \in HttpRoutes, b \in HttpBodies}
  \cup {HttpRequest(r, k, [form |-> "object",
                           item |-> [BobPayload EXCEPT !.content = ContentOf("partial")]]) :
          r \in HttpRoutes, k \in HttpKeys}

Envs == { [apiKey |-> k, production |-> b] : k \in {NoText, ApiSecret}, b \in BOOLEAN }

InitHttp ==
  /\ profiles = InitProfiles
  /\ authUsers = InitAuthUsers
  /\ coach_clients = << >>
  /\ pillars = << >>
  /\ notes = << >>
  /\ tasks = << >>
  /\ metrics = << >>
  /\ last = NoRequest
  /\ nreq = 0
  /\ env \in Envs
  /\ call = NoCall
  /\ reqs = NoRuns

NextHttp ==
  \/ \E q \in HttpRequests : HttpRejected(q)
  \/ \E q \in HttpRequests : HealthCheck(q)
  \/ \E q \in HttpRequests : HttpNoRoute(q)
  \/ \E q \in HttpRequests : HttpAdd(q)
  \/ \E q \in HttpRequests : HttpUpdate(q)
  \/ \E q \in HttpRequests : HttpNewCycle(q)

SpecHttp == InitHttp /\ [][NextHttp]_vars

(***************************************************************************)
(* Properties.  A property about two successive requests is an action      *)
(* property: the unprimed variables are the store and the response before  *)
(* the second request, the primed ones those after it.                     *)
(***************************************************************************)

\* C1: add-roadmap sent twice with the same payload, for a client e-mail
\* that was new at the first call and a coach that resolves, is answered 200
\* again, the second call returns the client id and the relation id of the
\* first, and the store holds one profile of that e-mail and one active
\* relation of the pair.
C1_AddTwiceReusesIds ==
  [][ (last'.op = "add" /\ last'.repeat /\ last.isNewClient /\ last.coach # NoId)
        => /\ last'.status = 200
           /\ last'.client = last.client
           /\ last'.cc = last.cc
           /\ Cardinality(ByEmail(profiles', ClientDataAdd(last.p).client_email)) = 1
           /\ Cardinality(ActiveOfPair(coach_clients', last.coach, last.client)) = 1
    ]_vars

\* the rows of a table that belong to a relation
RowsOf(table, cc) == {i \in 1..Len(table) : table[i].coach_client_id = cc}

\* C2: once a content with the vision block and all four months has been
\* ingested into a relation by add-roadmap or update-roadmap, whatever was
\* ingested into it before and however often, the relation has exactly 3
\* pillar rows and exactly 16 week-note rows.
C2_ThreePillarsSixteenNotes ==
  (last.op \in {"add", "update"} /\ last.status = 200 /\ last.cc # NoId
     /\ IsFullContent(last.p.content))
    => /\ Cardinality(RowsOf(pillars, last.cc)) = 3
       /\ Cardinality(RowsOf(notes, last.cc)) = TotalWeeks

\* C2 witness: the same full content has been ingested a second time into
\* the relation that already held it.
C2_Witness ==
  /\ last.op \in {"add", "update"} /\ last.status = 200 /\ last.repeat
  /\ last.cc # NoId /\ IsFullContent(last.p.content)

\* the tasks of a client in a week
TasksOf(table, clientId, weekNumber) ==
  {i \in 1..Len(table) : /\ table[i].client_id = clientId
                          /\ table[i].week_number = weekNumber}

\* C3: update-roadmap sent twice with the same payload creates no second
\* task, whatever the length of the bullet texts.
C3_UpdateTwiceNoSecondTask ==
  [][ (last'.op = "update" /\ last'.repeat /\ last'.status = 200)
        => Len(tasks') = Len(tasks) ]_vars

\* C4: add-roadmap sent twice with the same payload, the second call reusing
\* the active relation, leaves the number of tasks of every client and week
\* unchanged.
C4_AddTwiceSameTaskCount ==
  [][ (last'.op = "add" /\ last'.repeat /\ last'.reusedRelation)
        => \A c \in 1..Len(profiles'), w \in 1..TotalWeeks :
             Cardinality(TasksOf(tasks', c, w)) = Cardinality(TasksOf(tasks, c, w))
    ]_vars

\* the payload has one of the two accepted shapes
ValidShape(p) == isRoadmapDataNew(p) \/ isRoadmapDataOld(p)

\* the profiles that carry the client e-mail of a payload
EmailMatches(profs, p) ==
  {i \in 1..Len(profs) : /\ ClientData(p).client_email # ""
                          /\ profs[i].email = ClientData(p).client_email}

\* C5: update-roadmap answers 404 exactly when no profile has the client
\* e-mail of the payload or the client has no active relation; when the
\* client has at least one active relation it answers 200 and writes to an
\* active relation of that client.
C5_UpdateFindsActiveRelation ==
  [][ (last'.op = "update" /\ ValidShape(last'.p))
        => LET active == {i \in 1..Len(coach_clients) :
                            /\ coach_clients[i].client_id \in EmailMatches(profiles, last'.p)
                            /\ coach_clients[i].status = "active"}
           IN /\ (last'.status = 404) <=> (active = {})
              /\ (active # {}) => (last'.status = 200 /\ last'.cc \in active)
    ]_vars

\* C6: add-roadmap inserts a relation only when the pair has no active
\* relation; when the pair has one, no relation is inserted and the
\* response carries the id of an active relation of the pair.
C6_AddReusesActiveRelation ==
  [][ (last'.op = "add")
        => LET active == {i \in 1..Len(coach_clients) :
                            /\ coach_clients[i].coach_id = last'.coach
                            /\ coach_clients[i].client_id = last'.client
                            /\ coach_clients[i].status = "active"}
           IN /\ (coach_clients' # coach_clients) =>
                   /\ active = {}
                   /\ Len(coach_clients') = Len(coach_clients) + 1
                   /\ SubSeq(coach_clients', 1, Len(coach_clients)) = coach_clients
              /\ (active # {} /\ last'.status = 200) =>
                   /\ coach_clients' = coach_clients
                   /\ last'.cc \in active
    ]_vars

\* C6 witness: an add-roadmap request has reused the active relation of
\* its pair.
C6_Witness ==
  /\ last.op = "add" /\ last.status = 200 /\ last.reusedRelation
  /\ coach_clients[last.cc].status = "active"
  /\ coach_clients[last.cc].coach_id = last.coach
  /\ coach_clients[last.cc].client_id = last.client

\* C7: no two profiles have the same e-mail, and an add-roadmap request
\* whose client id or client e-mail matches a profile is served with that
\* profile and creates no profile.
C7_ProfilesNeverDuplicated ==
  [][ /\ \A i, j \in 1..Len(profiles') :
           profiles'[i].email = profiles'[j].email => i = j
      /\ (last'.op = "add" /\ ValidShape(last'.p))
           => LET matches == EmailMatches(profiles, last'.p)
                               \cup ById(profiles, last'.p.client_id)
              IN matches # {} => /\ Len(profiles') = Len(profiles)
                                 /\ last'.status = 200
                                 /\ last'.client \in matches
    ]_vars

\* the cycle numbers of the relations of a pair
CyclesOfPair(ccs, coachId, clientId) ==
  {ccs[i].cycle_number : i \in {j \in 1..Len(ccs) : /\ ccs[j].coach_id = coachId
                                                     /\ ccs[j].client_id = clientId}}

\* C8: a new-cycle-roadmap request without cycle_number, for a coach and a
\* client that exist and a pair that has relations, inserts one relation
\* whose cycle_number is the greatest cycle_number of the pair plus one, which
\* is 2 when only cycle 1 exists.
C8_NextCycleNumber ==
  [][ (last'.op = "newcycle" /\ last'.status = 200 /\ last'.p.cycle_number = 0
         /\ CyclesOfPair(coach_clients, last'.coach, last'.client) # {})
        => LET cycles == CyclesOfPair(coach_clients, last'.coach, last'.client)
               new    == coach_clients'[Len(coach_clients')]
           IN /\ Len(coach_clients') = Len(coach_clients) + 1
              /\ new.coach_id = last'.coach /\ new.client_id = last'.client
              /\ new.cycle_number = Max(cycles) + 1
              /\ cycles = {1} => new.cycle_number = 2
              /\ last'.cycle = new.cycle_number
    ]_vars

\* C8 witness: the third cycle of a pair whose first cycle was inserted by
\* add-roadmap and whose second by new-cycle-roadmap.
C8_Witness ==
  /\ last.op = "newcycle" /\ last.status = 200 /\ last.p.cycle_number = 0
  /\ last.cycle = 3
  /\ CyclesOfPair(coach_clients, last.coach, last.client) = {1, 2, 3}

\* the profiles of role coach named by the coach e-mail or the coach id
CoachMatches(profs, p) ==
  {i \in 1..Len(profs) : /\ profs[i].role = "coach"
                          /\ \/ (p.coach_email # "" /\ profs[i].email = p.coach_email)
                             \/ i = p.coach_id}

\* the profiles named by the client id or the client e-mail
ClientMatches(profs, p) == EmailMatches(profs, p) \cup ById(profs, p.client_id)

\* C9 as stated: new-cycle-roadmap answers 400 when no coach is resolved and
\* 404 when the coach is resolved and the client is found neither by id nor
\* by e-mail, and writes nothing in both cases.
C9_NewCycleRejects ==
  [][ (last'.op = "newcycle" /\ ValidShape(last'.p))
        => /\ (CoachMatches(profiles, last'.p) = {})
                => (last'.status = 400 /\ UNCHANGED StoreVars)
           /\ (CoachMatches(profiles, last'.p) # {} /\ ClientMatches(profiles, last'.p) = {})
                => (last'.status = 404 /\ UNCHANGED StoreVars)
    ]_vars

\* C9 amended: the same, where 404 is the answer for a payload that carries
\* a client e-mail; without one the answer is 400.
C9_NewCycleRejectsWithEmail ==
  [][ (last'.op = "newcycle" /\ ValidShape(last'.p))
        => /\ (CoachMatches(profiles, last'.p) = {})
                => (last'.status = 400 /\ UNCHANGED StoreVars)
           /\ (ClientData(last'.p).client_email = "")
                => (last'.status = 400 /\ UNCHANGED StoreVars)
           /\ (CoachMatches(profiles, last'.p) # {} /\ ClientMatches(profiles, last'.p) = {}
                 /\ ClientData(last'.p).client_email # "")
                => (last'.status = 404 /\ UNCHANGED StoreVars)
    ]_vars

\* C9 witness: a request with a coach that resolves and a client e-mail of
\* no profile has been answered 404, after a request that wrote rows.
C9_Witness ==
  /\ last.op = "newcycle" /\ last.status = 404
  /\ CoachMatches(profiles, last.p) # {}
  /\ ClientMatches(profiles, last.p) = {}
  /\ Len(coach_clients) > 0

CurrentShape(p) ==
  [p EXCEPT !.shape = "new", !.client_name = p.header_name,
            !.client_email = p.header_email, !.header_name = "", !.header_email = ""]

\* C12: add-roadmap derives from a legacy-shape payload the client identity
\* (client_email, client_name) it derives from the current-shape payload
\* that carries the same client and content, and gives both the same
\* outcome (both accepted or both rejected).
C12_ShapeInvariance ==
  [][ (last'.op = "add" /\ isRoadmapDataOld(last'.p))
        => LET q == CurrentShape(last'.p)
           IN /\ ClientDataAdd(last'.p).client_email = ClientDataAdd(q).client_email
              /\ ClientDataAdd(last'.p).client_name = ClientDataAdd(q).client_name
              /\ (last'.status = 200)
                   <=> (AddIdentity(Store, q, last'.x).resp.status = 200)
    ]_vars

\* C16: every add-roadmap request that reaches the response stage has
\* invoked sendWelcomeEmail exactly once.
C16_WelcomeEmailOnce ==
  (last.op = "add" /\ last.status = 200) => last.emails = 1

\* C20: add-roadmap resolves the client by id, then by e-mail: a payload
\* whose client_id is the id of no profile and whose client e-mail is the
\* e-mail of a profile is served with that profile, and no auth identity is
\* created.
C20_ClientByIdThenEmail ==
  [][ (last'.op = "add" /\ ValidShape(last'.p) /\ ClientDataAdd(last'.p).client_name # ""
         /\ last'.p.client_id # NoId /\ ById(profiles, last'.p.client_id) = {}
         /\ EmailMatches(profiles, last'.p) # {})
        => /\ last'.client \in EmailMatches(profiles, last'.p)
           /\ "createUser" \notin last'.calls
           /\ Len(authUsers') = Len(authUsers)
    ]_vars

(***************************************************************************)
(* Properties of the requests as they reach the server (SpecHttp).         *)
(***************************************************************************)
\* the three roadmap routes
RoadmapOps == {"add", "update", "newcycle"}

\* C11: on each of the three roadmap routes, a body that after unwrapping
\* has neither the keys data and plan nor the keys validation and "" (an
\* empty array and a roadmap_data wrapper around a string included) is
\* answered 400 and causes no store, identity-provider, completion-service
\* or e-mail call.
C11_InvalidShapeRejected ==
  [][ (last'.op \in RoadmapOps /\ ~ValidShape(last'.p))
        => /\ last'.status = 400
           /\ last'.calls = {}
           /\ last'.emails = 0
           /\ UNCHANGED StoreVars
    ]_vars

\* C17: an exception thrown while a roadmap request is handled gives a 500
\* response, and in production the response does not carry the message of
\* the exception.
C17_ExceptionsRedacted ==
  (last.op \in RoadmapOps /\ Throws(last.p))
    => /\ last.status = 500
       /\ env.production => last.details # InMessage(last.p)

Established(op, p, x) ==
  CASE op = "add" ->
         /\ ~AddIdentity(Store, p, x).done
         /\ AddIdentity(Store, p, x).resp.coach # NoId
         /\ ~x.relationErr
    [] op = "update" ->
         /\ ValidShape(p)
         /\ Single(ActiveOfClient(coach_clients,
                                   FindClientUpdate(profiles, ClientData(p)))) # NoId
    [] op = "newcycle" ->
         /\ ValidShape(p) /\ ClientData(p).client_email # ""
         /\ ResolveCoachNewCycle(profiles, p) # NoId
         /\ FindClientNewCycle(profiles, ClientData(p)) # NoId
         /\ ~x.relationErr
    [] OTHER -> FALSE

\* the store rejects the write that carries a key: add-roadmap writes one
\* batch per table, the other two routes one row at a time
Rejected(op, err, key) == IF op = "add" THEN err # {} ELSE key \in err

HasRow(table, row) == \E i \in 1..Len(table) : table[i] = row

\* the rows a request is to write into its relation
PillarsToWrite(resp) ==
  IF resp.p.content.vision.present
    THEN {PillarRows(resp.cc, resp.p.content.vision)[i] : i \in 1..3}
    ELSE {}

NotesToWrite(resp, aiTitles) ==
  IF resp.p.content.monthly_plan.present
    THEN LET rows == WeekNoteRows(resp.cc, aiTitles, WeekList(resp.p.content.monthly_plan))
         IN {rows[i] : i \in 1..Len(rows)}
    ELSE {}

TasksToWrite(resp) ==
  IF resp.p.content.monthly_plan.present
    THEN LET items == WeekActions(WeekList(resp.p.content.monthly_plan))
         IN {items[i] : i \in 1..Len(items)}
    ELSE {}

\* C14: when the store rejects a pillar, week-note, task or metric write of
\* a request whose engagement is established, the answer is 200 and every
\* other write of the sequence is made: each pillar and week note that is
\* not rejected is in its table, each bullet whose insert is not rejected
\* has a task, and the metrics are written unless their write is rejected.
C14_WriteErrorsDoNotAbort ==
  [][ (last'.op \in RoadmapOps /\ Established(last'.op, last'.p, last'.x))
        => /\ last'.status = 200
           /\ last'.cc # NoId
           /\ \A r \in PillarsToWrite(last') :
                ~Rejected(last'.op, last'.x.pillarErr, r.pillar_type)
                  => HasRow(pillars', r)
           /\ \A r \in NotesToWrite(last', generateWeekTitlesOpenAI(last'.x)) :
                ~Rejected(last'.op, last'.x.noteErr, r.week_number)
                  => HasRow(notes', r)
           /\ \A t \in TasksToWrite(last') :
                ~Rejected(last'.op, last'.x.taskErr, t.week_number)
                  => \E i \in TasksOf(tasks', last'.client, t.week_number) :
                       \/ tasks'[i].title = t.title
                       \/ ILikeContains(tasks'[i].title, t.prefix)
           /\ (HasMetrics(last'.p.content.financials) /\ last'.x.metricsUpsert # "error")
                => MetricsOf(metrics', last'.cc) # {}
    ]_vars

\* C14 witness: update-roadmap has been answered 200 although the store
\* rejected a pillar, a week note, the tasks of a week and the metrics.
C14_Witness ==
  /\ last.op = "update" /\ last.status = 200
  /\ last.x.pillarErr # {} /\ last.x.noteErr # {} /\ last.x.taskErr # {}
  /\ last.x.metricsUpsert = "error"
  /\ Cardinality(RowsOf(notes, last.cc)) = TotalWeeks

\* the completion service gives no titles
NoAiTitles(x) == x.ai # "ok" \/ x.aiTitles = << >>

\* the status of the same request when the completion service answers
\* sixteen titles
StatusWithTitles(op, p, x) ==
  LET y == [x EXCEPT !.ai = "ok", !.aiTitles = SixteenTitles]
  IN CASE op = "add" ->
            {AddSync(AddIdentity(Store, p, y), p, y, e).resp.status :
               e \in RelationChoices(AddIdentity(Store, p, y).S,
                                     AddIdentity(Store, p, y).resp.coach,
                                     AddIdentity(Store, p, y).resp.client)}
       [] op = "update"   -> {UpdateResult(Store, p, y).resp.status}
       [] op = "newcycle" -> {NewCycleResult(Store, p, y).resp.status}

\* C15: whatever way the completion-service call gives no titles (no API
\* key, exception, status not ok, unparsable body, missing or empty titles
\* array), a request whose engagement is established upserts a week note
\* for every week of every present month with the fallback title of the
\* week, and its status is the status it has when the call gives titles.
C15_TitleFallback ==
  [][ (last'.op \in RoadmapOps /\ Established(last'.op, last'.p, last'.x)
         /\ NoAiTitles(last'.x))
        => /\ \A r \in NotesToWrite(last', << >>) :
                ~Rejected(last'.op, last'.x.noteErr, r.week_number)
                  => HasRow(notes', r)
           /\ last'.status \in StatusWithTitles(last'.op, last'.p, last'.x)
    ]_vars

\* C15 witness: the second request of a run, whose call to the completion
\* service failed, has stored the fallback titles of the sixteen weeks.
C15_Witness ==
  /\ last.op \in RoadmapOps /\ last.status = 200 /\ last.x.ai \in {"network", "status"}
  /\ nreq = 2
  /\ \A r \in NotesToWrite(last, << >>) : HasRow(notes, r)
  /\ Cardinality(NotesToWrite(last, << >>)) = TotalWeeks

(***************************************************************************)
(* Properties of the pure functions (SpecPure).                            *)
(***************************************************************************)
TitleOf(block) == call.done /\ call.fn = "getWeekShortTitle" /\ call.arg = block

\* "Call 10 leads" and "Call 10 leads Draft proposal"
CallTitle == << "C", "a", "l", "l", " ", "1", "0", " ", "l", "e", "a", "d", "s" >>
CallDraftTitle == CallTitle \o << " " >> \o SubSeq(L_Draft, 3, Len(L_Draft))

N_1234_56 == << "1", "2", "3", "4", ".", "5", "6" >>

\* C19: parseCurrency("1 234,56 EUR") is 1234.56, parseCurrency("") is null
\* and parsePercentage("12%") is 12.
C19_ParserExamples ==
  /\ (call.done /\ call.fn = "parseCurrency"
        /\ call.arg = << "1", " ", "2", "3", "4", ",", "5", "6", " ", "EUR" >>)
       => call.out = N_1234_56
  /\ (call.done /\ call.fn = "parseCurrency" /\ call.arg = NoText) => call.out = NoText
  /\ (call.done /\ call.fn = "parsePercentage" /\ call.arg = << "1", "2", "%" >>)
       => call.out = << "1", "2" >>

(***************************************************************************)
(* Properties of the cycles of a pair and of what a request leaves alone.  *)
(***************************************************************************)
SamePair(a, b) == a.coach_id = b.coach_id /\ a.client_id = b.client_id

\* C26: after any sequence of add-roadmap and new-cycle-roadmap requests,
\* with or without an explicit cycle_number, no two coach_clients rows of
\* the same (coach, client) pair carry the same cycle_number.
C26_CycleNumbersDistinct ==
  \A i, j \in 1..Len(coach_clients) :
    (i # j /\ SamePair(coach_clients[i], coach_clients[j]))
      => coach_clients[i].cycle_number # coach_clients[j].cycle_number

\* the rows of a table that do not belong to a relation
RowsNotOf(table, cc) == LET Other(r) == r.coach_client_id # cc IN SelectSeq(table, Other)

\* C27: every new-cycle-roadmap request answered 200 inserts exactly one
\* coach_clients row (active, 16 weeks, current week 1) and leaves every
\* earlier coach_clients row, and the pillar, week-note and metric rows of
\* the earlier relations, as they were.
C27_NewCycleInsertsOneRow ==
  [][ (last'.op = "newcycle" /\ last'.status = 200)
        => LET new == Len(coach_clients')
           IN /\ new = Len(coach_clients) + 1
              /\ last'.cc = new
              /\ SubSeq(coach_clients', 1, new - 1) = coach_clients
              /\ coach_clients'[new].coach_id = last'.coach
              /\ coach_clients'[new].client_id = last'.client
              /\ coach_clients'[new].status = "active"
              /\ coach_clients'[new].total_weeks = 16
              /\ coach_clients'[new].current_week = 1
              /\ RowsNotOf(pillars', new) = pillars
              /\ RowsNotOf(notes', new) = notes
              /\ RowsNotOf(metrics', new) = metrics
    ]_vars

\* C27 witness: a new cycle has been created for a pair whose earlier
\* relation is active and has pillar, week-note and metric rows.
C27_Witness ==
  /\ last.op = "newcycle" /\ last.status = 200
  /\ \E i \in 1..Len(coach_clients) :
       /\ i # last.cc /\ SamePair(coach_clients[i], coach_clients[last.cc])
       /\ coach_clients[i].status = "active"
       /\ RowsOf(pillars, i) # {} /\ RowsOf(notes, i) # {} /\ RowsOf(metrics, i) # {}
  /\ RowsOf(pillars, last.cc) # {}

\* C28: a new-cycle-roadmap request answered 200 creates one task per
\* non-empty bullet of its plan, whatever tasks the client already has for
\* the same week numbers.
C28_NewCycleTaskPerBullet ==
  [][ (last'.op = "newcycle" /\ last'.status = 200 /\ last'.x.taskErr = {}
         /\ last'.p.content.monthly_plan.present)
        => tasks' = tasks \o TaskRows(last'.coach, last'.client,
                                      WeekActions(WeekList(last'.p.content.monthly_plan)))
    ]_vars

\* the rows of a sequence, as a set
Range(rows) == {rows[i] : i \in 1..Len(rows)}

\* C29: after a request has been synchronized into a relation without store
\* error, the pillar rows and the week-note rows of the relation are those
\* of the payload of the request and no others, also when the payload has
\* no vision block or lacks a month.
C29_LastWriteWins ==
  [][ (last'.op \in RoadmapOps /\ last'.status = 200 /\ last'.cc # NoId
         /\ last'.x.pillarErr = {} /\ last'.x.noteErr = {})
        => LET cc      == last'.cc
               content == last'.p.content
           IN /\ {pillars'[i] : i \in RowsOf(pillars', cc)}
                   = (IF content.vision.present
                        THEN Range(PillarRows(cc, content.vision)) ELSE {})
              /\ {notes'[i] : i \in RowsOf(notes', cc)}
                   = (IF content.monthly_plan.present
                        THEN Range(WeekNoteRows(cc, generateWeekTitlesOpenAI(last'.x),
                                                WeekList(content.monthly_plan)))
                        ELSE {})
    ]_vars

\* C30: whenever add-roadmap answers 200 with a client_password, the
\* password of the identity of the client at the identity provider is the
\* password of the response.
C30_PasswordIsStored ==
  (last.op = "add" /\ last.status = 200 /\ last.password # "")
    => LET uid == profiles[last.client].user_id
       IN uid # NoId /\ authUsers[uid].password = last.password

(***************************************************************************)
(* Properties of requests served at the same time (SpecRace).              *)
(***************************************************************************)
\* exactly two requests have been made, both on route op, one per run, both
\* answered 200, for the same coach and client
TwoAnswered(op) ==
  /\ nreq = 2
  /\ \A i \in Runs : reqs[i].op = op /\ reqs[i].pc = "idle" /\ reqs[i].resp.status = 200
  /\ reqs[1].resp.coach = reqs[2].resp.coach
  /\ reqs[1].resp.client = reqs[2].resp.client

\* C21: after two add-roadmap requests for the same (coach, client) pair,
\* however their steps interleave, the pair has at most one active
\* coach_clients row.
C21_OneActiveRelation ==
  (TwoAnswered("add") /\ reqs[1].resp.coach # NoId)
    => Cardinality(ActiveOfPair(coach_clients, reqs[1].resp.coach,
                                reqs[1].resp.client)) <= 1

\* run i takes a step
Steps(i) == reqs'[i] # reqs[i]

\* C22: a run of update-roadmap that found no task for a bullet inserts the
\* task of the bullet at its next step, whatever the other run has inserted
\* since the look-up; two runs that both looked the same bullet up before
\* either inserted leave two tasks with the same title, client and week.
C22_TaskInsertAfterStaleCheck ==
  [][ \A i \in Runs :
        (reqs[i].op = "update" /\ reqs[i].pc = "taskInsert" /\ Steps(i))
          => tasks' = Append(tasks, TaskRow(reqs[i].resp.coach, reqs[i].resp.client,
                                            Head(reqs[i].items)))
    ]_vars

\* C22 witness: two update-roadmap requests with the same payload have been
\* answered 200 and the tasks table holds the same row twice.
C22_Witness ==
  /\ \A i \in Runs : reqs[i].op = "update" /\ reqs[i].pc = "idle"
                       /\ reqs[i].resp.status = 200
  /\ reqs[1].p = reqs[2].p
  /\ \E a, b \in 1..Len(tasks) :
       /\ a < b /\ tasks[a] = tasks[b]
       /\ tasks[a].client_id = reqs[1].resp.client
       /\ \E item \in Range(ItemsOf(reqs[1].p.content, reqs[1].resp.coach, reqs[1].x)) :
            tasks[a].title = item.title /\ tasks[a].week_number = item.week_number

\* C23: a run of add-roadmap whose look-up found no profile calls
\* createUser at its next step, whatever profile or identity has been
\* created since the look-up; two runs for the same new e-mail can both get
\* there.
C23_CreateUserAfterStaleLookup ==
  [][ \A i \in Runs :
        (reqs[i].op = "add" /\ reqs[i].pc = "identity" /\ reqs[i].found = NoId
           /\ Steps(i))
          => "createUser" \in reqs'[i].resp.calls
    ]_vars

\* C23 witness: two add-roadmap requests for the same e-mail, which had no
\* profile, have both called createUser.
C23_Witness ==
  /\ \A i \in Runs : reqs[i].op = "add" /\ reqs[i].found = NoId
                       /\ "createUser" \in reqs[i].resp.calls
  /\ ClientDataAdd(reqs[1].p).client_email = ClientDataAdd(reqs[2].p).client_email

\* no two rows of a table have the same key
UniqueKey(table, Key(_)) ==
  \A a, b \in 1..Len(table) : Key(table[a]) = Key(table[b]) => a = b

\* C24: however the steps of the requests interleave, there is at most one
\* pillar row per (relation, pillar_type), one week-note row per (relation,
\* week_number) and one metrics row per (relation, week_number), also when
\* the metrics upsert is answered 42P10 and the fallback runs.
C24_OneRowPerKey ==
  /\ UniqueKey(pillars, PillarKey)
  /\ UniqueKey(notes, WeekKey)
  /\ UniqueKey(metrics, WeekKey)

\* C25: two new-cycle-roadmap requests without cycle_number for the same
\* (coach, client) pair, however their steps interleave, insert relations
\* with different cycle numbers.
C25_DistinctCycleNumbers ==
  (TwoAnswered("newcycle") /\ \A i \in Runs : reqs[i].p.cycle_number = 0)
    => coach_clients[reqs[1].resp.cc].cycle_number
         # coach_clients[reqs[2].resp.cc].cycle_number

(***************************************************************************)
(* Properties of the identities, the metrics and the optional coach.       *)
(***************************************************************************)
\* C31: after any add-roadmap request, whatever its status, every identity
\* of the identity provider is the user_id of a profile, so that no
\* identity without profile blocks a retry.
C31_IdentityHasProfile ==
  \A u \in 1..Len(authUsers) : \E i \in 1..Len(profiles) : profiles[i].user_id = u

\* the request reached the metrics stage with financials that pass its guard
MetricsStage(resp) ==
  /\ resp.op \in RoadmapOps /\ resp.status = 200 /\ resp.cc # NoId
  /\ resp.x.metricsUpsert # "error"

\* C32: when the store answers 42P10 to the metrics upsert, a sequence of
\* ingestions into one relation leaves exactly one metrics row for
\* (relation, week 1), and the row holds the values of the last ingestion.
C32_FallbackKeepsLastValues ==
  [][ (MetricsStage(last') /\ last'.x.metricsUpsert = "42P10"
         /\ HasMetrics(last'.p.content.financials))
        => /\ Cardinality(MetricsOf(metrics', last'.cc)) = 1
           /\ \A i \in MetricsOf(metrics', last'.cc) :
                metrics'[i] = MetricsData(last'.cc, last'.client,
                                          last'.p.content.financials)
    ]_vars

\* a value parsed successfully: neither null nor NaN
ParsedOk(v) == v # NoText /\ v # NaN

\* at least one of revenue, cash in bank and clients count was parsed
SomeMetricParsed(financials) ==
  /\ financials.present
  /\ \/ ParsedOk(parseCurrency(financials.ca))
     \/ ParsedOk(parseCurrency(financials.treasury))
     \/ ParsedOk(parseIntOrNull(financials.collaborators))

\* C33: a metrics row is written iff at least one of revenue, cash in bank
\* and clients count was parsed from header.financials; the row has
\* week_number 1 and no field without a parsed value; a conversion rate
\* alone writes nothing.
C33_MetricsWrittenIffParsed ==
  [][ MetricsStage(last')
        => /\ (MetricsOf(metrics', last'.cc) # {})
                <=> (SomeMetricParsed(last'.p.content.financials)
                       \/ MetricsOf(metrics, last'.cc) # {})
           /\ (metrics' # metrics) => SomeMetricParsed(last'.p.content.financials)
           /\ \A i \in MetricsOf(metrics', last'.cc) :
                /\ metrics'[i].week_number = 1
                /\ \A k \in MetricKeys : metrics'[i][k] # NaN
    ]_vars

\* C34: when the payload names no profile with role coach, and the client
\* is found or can be created, add-roadmap answers 200 with the client and
\* no coach_client_id, and leaves the relations, pillars, week notes, tasks
\* and metrics as they were.
C34_NoCoachNoRelation ==
  [][ (/\ last'.op = "add" /\ ValidShape(last'.p) /\ last'.x = AllFine
       /\ ClientDataAdd(last'.p).client_name # ""
       /\ ClientDataAdd(last'.p).client_email # ""
       /\ CoachMatches(profiles, last'.p) = {}
       /\ \/ FindClientAdd(profiles, ClientDataAdd(last'.p)) # NoId
          \/ ~EmailRegistered(authUsers, ClientDataAdd(last'.p).client_email))
        => /\ last'.status = 200 /\ last'.coach = NoId /\ last'.cc = NoId
           /\ last'.client # NoId
           /\ profiles'[last'.client].email \in
                {ClientDataAdd(last'.p).client_email} \cup
                {profiles[i].email : i \in ById(profiles, last'.p.client_id)}
           /\ UNCHANGED << coach_clients, pillars, notes, tasks, metrics >>
    ]_vars

\* C34 witness: add-roadmap has created a client for a payload without
\* coach, and has answered 200.
C34_Witness ==
  /\ last.op = "add" /\ last.status = 200 /\ last.coach = NoId /\ last.isNewClient
  /\ last.p.content.vision.present /\ last.p.content.monthly_plan.present
  /\ HasMetrics(last.p.content.financials)

\* the first line of a block that starts with a dash, blanks aside
FirstDashLine(block) ==
  LET dash == SelectSeq(SplitLines(block), IsDashLine)
  IN IF Len(dash) = 0 THEN NoText ELSE Trim(dash[1])

\* C36: the fallback title of a week is made of its first line that starts
\* with a dash: the marker stripped, at most the first five words kept, an
\* ellipsis appended iff the line has more than five words; it is empty
\* when the week has no dash line.
C36_TitleFromFirstDashLine ==
  (call.done /\ call.fn = "getWeekShortTitle")
    => LET words == Words(StripMarker(FirstDashLine(call.arg)))
       IN call.out = JoinWords(SubSeq(words, 1, Min(TitleWords, Len(words))))
                       \o (IF Len(words) > TitleWords THEN Ellipsis ELSE << >>)

(***************************************************************************)
(* SpecEmail: one invocation of sendWelcomeEmail.  env carries the Resend  *)
(* configuration of the server; call is the invocation: its arguments, the *)
(* await it is suspended at (pc), the recipients of the delivery attempts  *)
(* made so far (to), the response of each attempt (responses), whether the *)
(* body of the current response has been read (used), and whether an       *)
(* exception has left the function (escaped).                              *)
(* A response of the delivery service is ok, or carries a body: JSON with  *)
(* a statusCode and a message, the JSON value null, or plain text.         *)
(***************************************************************************)
TestAddress == << "t", "@", "x" >>

MailEnvs ==
  {[apiKey |-> ApiSecret, production |-> TRUE, RESEND_API_KEY |-> k, RESEND_TEST_EMAIL |-> t] :
     k \in {NoText, << "r", "e" >>}, t \in {NoText, TestAddress}}

OkResponse == [ok |-> TRUE, form |-> "json", statusCode |-> 200, message |-> "sent"]

Rejections ==
  {[ok |-> FALSE, form |-> "json", statusCode |-> s, message |-> m] :
     s \in {403, 422, 429},
     m \in {"verify a domain", "testing emails", "rate limit", "undefined"}}
  \cup {[ok |-> FALSE, form |-> "text", statusCode |-> 0, message |-> m] :
          m \in {"verify a domain", "bad gateway"}}
  \cup {[ok |-> FALSE, form |-> "null", statusCode |-> 0, message |-> "undefined"]}

\* fetch rejects (no connection)
FetchThrows == [ok |-> FALSE, form |-> "throws", statusCode |-> 0, message |-> "undefined"]

FetchOutcomes == {OkResponse, FetchThrows} \cup Rejections

\* try { JSON.parse(text) } catch { { message: text } }
ParseError(response) ==
  IF response.form = "text"
    THEN [statusCode |-> 0, message |-> response.message]
    ELSE [statusCode |-> response.statusCode, message |-> response.message]

\* every rejection counts as a domain error
isAnyError(resendError) == TRUE

\* message includes 'verify a domain', statusCode is 403, or message
\* includes 'testing emails'
isDomainError(resendError) ==
  \/ resendError.message = "verify a domain"
  \/ resendError.statusCode = 403
  \/ resendError.message = "testing emails"

NoMail ==
  [fn |-> "sendWelcomeEmail", client_email |-> NoText, password |-> NoText,
   compose |-> "ok", pc |-> "called", to |-> << >>, responses |-> << >>,
   used |-> FALSE, escaped |-> FALSE]

MailCalls ==
  {[NoMail EXCEPT !.client_email = e, !.password = p, !.compose = c] :
     e \in {NoText, << "a", "@", "x" >>}, p \in {NoText, << "p", "1" >>},
     c \in {"ok", "throws"}}

InitEmail ==
  /\ profiles = InitProfiles
  /\ authUsers = InitAuthUsers
  /\ coach_clients = << >>
  /\ pillars = << >>
  /\ notes = << >>
  /\ tasks = << >>
  /\ metrics = << >>
  /\ last = NoRequest
  /\ nreq = 0
  /\ env \in MailEnvs
  /\ call \in MailCalls
  /\ reqs = NoRuns

MailStep(c) ==
  /\ call' = c
  /\ UNCHANGED << profiles, authUsers, coach_clients, pillars, notes, tasks, metrics,
                  last, nreq, env, reqs >>

\* an exception thrown at pc: inside the try block it is caught and logged
MailThrown(c, inTry) ==
  IF inTry THEN [c EXCEPT !.pc = "returned"]
  ELSE [c EXCEPT !.pc = "returned", !.escaped = TRUE]

\* the guard on the configuration and the arguments, then the logo look-up
\* and the composition of the message inside the try block
MailCompose ==
  /\ call.pc = "called"
  /\ MailStep(IF env.RESEND_API_KEY = NoText \/ call.client_email = NoText
                   \/ call.password = NoText
                THEN [call EXCEPT !.pc = "returned"]
              ELSE IF call.compose = "throws" THEN MailThrown(call, TRUE)
              ELSE [call EXCEPT !.pc = "first"])

\* a delivery attempt to recipient has been answered by response
Attempted(c, recipient, response) ==
  LET d == [c EXCEPT !.to = Append(@, recipient),
                     !.responses = Append(@, response), !.used = FALSE]
  IN IF response.form = "throws" THEN MailThrown(d, TRUE)
     ELSE IF response.ok THEN [d EXCEPT !.pc = "returned"]
     ELSE d

\* the first attempt, to the e-mail of the client
MailFirstAttempt ==
  /\ call.pc = "first"
  /\ \E response \in FetchOutcomes :
       \E c \in {Attempted(call, call.client_email, response)} :
         MailStep(IF c.pc = "returned" THEN c ELSE [c EXCEPT !.pc = "rejected"])

\* the first attempt was rejected: read the body, then retry to the test
\* address or go on to the final test of the response
MailReadRejection ==
  /\ call.pc = "rejected"
  /\ LET response == call.responses[Len(call.responses)]
         c == [call EXCEPT !.used = TRUE]
     IN MailStep(IF response.form = "null" THEN MailThrown(c, TRUE)
                 ELSE IF isDomainError(ParseError(response))
                         /\ env.RESEND_TEST_EMAIL # NoText
                   THEN [c EXCEPT !.pc = "second"]
                 ELSE [c EXCEPT !.pc = "final"])

\* the second attempt, to the test address
MailSecondAttempt ==
  /\ call.pc = "second"
  /\ \E response \in FetchOutcomes :
       \E c \in {Attempted(call, env.RESEND_TEST_EMAIL, response)} :
         MailStep(IF c.pc = "returned" THEN c ELSE [c EXCEPT !.pc = "final"])

\* the response is not ok: resendResponse.text() again; it rejects when
\* the body has been read already
MailReadFinal ==
  /\ call.pc = "final"
  /\ MailStep(IF call.used THEN MailThrown(call, TRUE)
              ELSE [call EXCEPT !.used = TRUE, !.pc = "returned"])

NextEmail ==
  \/ MailCompose
  \/ MailFirstAttempt
  \/ MailReadRejection
  \/ MailSecondAttempt
  \/ MailReadFinal

SpecEmail == InitEmail /\ [][NextEmail]_vars

\* C35: sendWelcomeEmail makes at most two delivery attempts; the first to
\* the e-mail of the client; a second only if the first was rejected with a
\* domain error and a test address is configured, and then to that address;
\* no exception leaves the function.
C35_AtMostTwoAttempts ==
  (call.fn = "sendWelcomeEmail")
    => /\ Len(call.to) <= 2
       /\ Len(call.to) >= 1 => call.to[1] = call.client_email
       /\ Len(call.to) = 2
            => /\ ~call.responses[1].ok
               /\ call.responses[1].form \in {"json", "text"}
               /\ \/ call.responses[1].message \in {"verify a domain", "testing emails"}
                  \/ (call.responses[1].form = "json" /\ call.responses[1].statusCode = 403)
               /\ env.RESEND_TEST_EMAIL # NoText
               /\ call.to[2] = env.RESEND_TEST_EMAIL
       /\ ~call.escaped

\* C35 witness: the invocation has returned after a second attempt that was
\* rejected as well.
C35_Witness ==
  /\ call.fn = "sendWelcomeEmail" /\ call.pc = "returned"
  /\ Len(call.to) = 2 /\ ~call.responses[2].ok /\ call.responses[2].form = "json"

(***************************************************************************)
(* SpecBlock: POST /block-user, one request after the other.  A profile    *)
(* row carries is_blocked, an identity of the provider carries banned; a   *)
(* request has an e-mail ("" when missing), the value of blocked, and the  *)
(* outcomes of its two writes (updateErr: the profile update returns an    *)
(* error; authErr: auth.admin.updateUserById returns an error).            *)
(***************************************************************************)
MaxBlockRequests == 3

\* a profile without identity
GhostProfile == [email |-> "ghost@x", role |-> "user", user_id |-> NoId, full_name |-> "Ghost"]

BlockProfiles ==
  [i \in 1..(Len(InitProfiles) + 1) |->
     [is_blocked |-> FALSE] @@ Append(InitProfiles, GhostProfile)[i]]

BlockAuthUsers == [i \in 1..Len(InitAuthUsers) |-> [banned |-> FALSE] @@ InitAuthUsers[i]]

BlockOutcomes == [updateErr : BOOLEAN, authErr : BOOLEAN]

\* blocked: true, false, missing, or the string 'false'
BlockRequests ==
  [email : {"", "bob@x", "ghost@x", "nobody@x"},
   blocked : {"true", "false", "undefined", "'false'"},
   x : BlockOutcomes]

\* const shouldBlock = blocked !== false
shouldBlock(q) == q.blocked # "false"

\* the checks on the body and the profile by e-mail
BlockLookup(S, q) ==
  LET found == Single(ByEmail(S.profiles, q.email))
  IN IF q.email = ""
       THEN [done |-> TRUE, found |-> NoId, resp |-> Response("block", q, 400, "email requis")]
     ELSE IF found = NoId
       THEN [done |-> TRUE, found |-> NoId,
             resp |-> Response("block", q, 404, "Utilisateur non trouve")]
     ELSE [done |-> FALSE, found |-> found, resp |-> Response("block", q, 200, "")]

\* the update of is_blocked on the profile found; an error is only logged
BlockProfile(profs, found, q) ==
  IF q.x.updateErr THEN profs
  ELSE [profs EXCEPT ![found] = [is_blocked |-> shouldBlock(q)] @@ @]

\* the ban of the identity of the profile, when it has one; an error of the
\* identity provider is answered 500
BlockIdentity(S, found, q) ==
  IF S.profiles[found].user_id = NoId
    THEN [S |-> S, resp |-> Response("block", q, 200, "")]
  ELSE IF q.x.authErr
    THEN [S |-> S,
          resp |-> Response("block", q, 500, "Erreur lors du blocage de l'utilisateur")]
  ELSE [S |-> [S EXCEPT !.authUsers[S.profiles[found].user_id] =
                  [banned |-> shouldBlock(q)] @@ @],
        resp |-> Response("block", q, 200, "")]

\* POST /block-user as a whole
BlockUserResult(S, q) ==
  LET l == BlockLookup(S, q)
  IN IF l.done THEN [S |-> S, resp |-> l.resp]
     ELSE BlockIdentity([S EXCEPT !.profiles = BlockProfile(S.profiles, l.found, q)],
                        l.found, q)

InitBlock ==
  /\ profiles = BlockProfiles
  /\ authUsers = BlockAuthUsers
  /\ coach_clients = << >>
  /\ pillars = << >>
  /\ notes = << >>
  /\ tasks = << >>
  /\ metrics = << >>
  /\ last = NoRequest
  /\ nreq = 0
  /\ env = DefaultEnv
  /\ call = NoCall
  /\ reqs = NoRuns

BlockUser ==
  /\ nreq < MaxBlockRequests
  /\ \E q \in BlockRequests :
       \E t \in {BlockUserResult(Store, q)} :
         /\ profiles' = t.S.profiles
         /\ authUsers' = t.S.authUsers
         /\ last' = t.resp
  /\ nreq' = nreq + 1
  /\ UNCHANGED << coach_clients, pillars, notes, tasks, metrics, env, call, reqs >>

NextBlock == BlockUser

SpecBlock == InitBlock /\ [][NextBlock]_vars

\* C38: after every block-user request, whatever its status, a profile that
\* has an identity is blocked exactly when the identity is banned; a request
\* answered 500 for a failure of the identity provider leaves is_blocked
\* as it was.
C38_FlagMatchesBan ==
  \A i \in 1..Len(profiles) :
    profiles[i].user_id # NoId
      => (profiles[i].is_blocked <=> authUsers[profiles[i].user_id].banned)

(***************************************************************************)
(* SpecGoals: the week-note and strategic-goals stages of the add-roadmap  *)
(* variant that merges the goals into the note of week 1, for a relation   *)
(* that is resolved, one request after the other.  A comment is a sequence *)
(* of texts: the fixed parts of the template and the texts of the payload. *)
(* The stages write coach_client_week_notes only.                          *)
(***************************************************************************)
MaxGoalsRequests == 3

NoGoals  == [present |-> FALSE, goals_4_months |-> "", goals_12_months |-> ""]
GoalsOne == [present |-> TRUE, goals_4_months |-> "g4", goals_12_months |-> "g12"]
GoalsTwo == [present |-> TRUE, goals_4_months |-> "h4", goals_12_months |-> ""]

GoalsHeader == "OBJECTIFS STRATEGIQUES\n\nObjectifs 4 mois:\n"

GoalsPlans ==
  { NoPlan, ContentOf("partial").monthly_plan, ContentOf("other").monthly_plan,
    Plan(NoMonth, Month(T_cd, NoText, NoText, NoText), NoMonth, NoMonth) }

\* goalsErr: the upsert of the goals note returns an error
GoalsRequests ==
  [plan : GoalsPlans, strategic_goals : {NoGoals, GoalsOne, GoalsTwo}, goalsErr : BOOLEAN]

\* `OBJECTIF MOIS ${monthIndex + 1}: ${month.objective || ''}\n\nKPIs:\n
\* ${month.kpi || ''}\n\nActions semaine ${weekNumber}:\n${weekAction}`;
\* the months of the payloads carry neither objective nor kpi
weekNote(wk) ==
  << "OBJECTIF MOIS ", ToString(((wk.week_number - 1) \div WeeksPerMonth) + 1),
     ": \n\nKPIs:\n\n\nActions semaine ", ToString(wk.week_number), ":\n" >> \o wk.action

RECURSIVE FullNoteRows(_, _)
FullNoteRows(cc, weeks) ==
  IF Len(weeks) = 0 THEN << >>
  ELSE << [coach_client_id |-> cc, week_number |-> Head(weeks).week_number,
           comment |-> weekNote(Head(weeks))] >>
         \o FullNoteRows(cc, Tail(weeks))

\* stage 2: one upsert per week of every month of the plan
UpsertWeekNotes(table, cc, plan) ==
  IF plan.present THEN UpsertNotes(table, FullNoteRows(cc, WeekList(plan))) ELSE table

strategicGoalsNote(g) ==
  << GoalsHeader, g.goals_4_months, "\n\nObjectifs 12 mois:\n", g.goals_12_months >>

\* stage 3: the note of week 1 is read, the goals are put in front of its
\* comment, and the result is upserted as the note of week 1
MergeGoals(table, cc, g, goalsErr) ==
  LET found == Single({i \in 1..Len(table) : WeekKey(table[i]) = << cc, 1 >>})
      combined == IF found # NoId /\ Len(table[found].comment) > 0
                    THEN strategicGoalsNote(g) \o << "\n\n---\n\n" >> \o table[found].comment
                    ELSE strategicGoalsNote(g)
  IN IF ~g.present \/ goalsErr THEN table
     ELSE Upsert(table, [coach_client_id |-> cc, week_number |-> 1, comment |-> combined],
                 {i \in 1..Len(table) : WeekKey(table[i]) = << cc, 1 >>})

\* the relation the requests are about
GoalsRelation == 1

InitGoals ==
  /\ profiles = InitProfiles
  /\ authUsers = InitAuthUsers
  /\ coach_clients = << NewRelation(1, 3, DefaultCycleNumber) >>
  /\ pillars = << >>
  /\ notes = << >>
  /\ tasks = << >>
  /\ metrics = << >>
  /\ last = NoRequest
  /\ nreq = 0
  /\ env = DefaultEnv
  /\ call = NoCall
  /\ reqs = NoRuns

AddRoadmapGoals ==
  /\ nreq < MaxGoalsRequests
  /\ \E q \in GoalsRequests :
       /\ notes' = MergeGoals(UpsertWeekNotes(notes, GoalsRelation, q.plan), GoalsRelation,
                              q.strategic_goals, q.goalsErr)
       /\ last' = [Response("goals", q, 200, "") EXCEPT
                     !.cc = GoalsRelation,
                     !.repeat = (last.op = "goals" /\ last.p = q)]
  /\ nreq' = nreq + 1
  /\ UNCHANGED << profiles, authUsers, coach_clients, pillars, tasks, metrics, env, call,
                  reqs >>

NextGoals == AddRoadmapGoals

SpecGoals == InitGoals /\ [][NextGoals]_vars

\* how often the header of the goals block occurs in a comment
GoalsBlocks(comment) == Cardinality({i \in 1..Len(comment) : comment[i] = GoalsHeader})

\* C37: in the variant that merges the strategic goals into the note of
\* week 1, ingesting the same content again leaves the notes as they are
\* after the first ingestion, and the goals block occurs once in the note of
\* week 1, also for a payload with strategic_goals and without
\* monthly_plan.
C37_GoalsMergedOnce ==
  [][ (last'.op = "goals" /\ last'.p.strategic_goals.present /\ ~last'.p.goalsErr)
        => /\ \A i \in 1..Len(notes') :
                WeekKey(notes'[i]) = << GoalsRelation, 1 >>
                  => GoalsBlocks(notes'[i].comment) = 1
           /\ last'.repeat => notes' = notes
    ]_vars

(***************************************************************************)
(* SpecLive: the four handlers as runs that are suspended at their awaits, *)
(* with the assumption that every outbound call returns: a run that is     *)
(* suspended eventually takes its next step (weak fairness of the steps of *)
(* each run; a step of a run stays enabled until the run takes it).        *)
(* Without the assumption, SpecLiveNoReturn, a run may stay suspended.     *)
(***************************************************************************)
\* POST /block-user arrives: the checks on the body and the profile look-up
StartBlock(i, q) ==
  /\ nreq < MaxRaceRequests /\ reqs[i].pc = "idle"
  /\ nreq' = nreq + 1
  /\ \E l \in {BlockLookup(Store, q)} :
       IF l.done THEN Answer(i, Started("block", q, q.x), l.resp)
       ELSE Await(i, [Started("block", q, q.x) EXCEPT
                        !.pc = "blockProfile", !.found = l.found, !.resp = l.resp])
  /\ UNCHANGED << StoreVars, env, call >>

\* the profile update has returned; the ban follows when the profile has an
\* identity, otherwise the response
UpdateBlockedProfile(i) ==
  /\ reqs[i].pc = "blockProfile"
  /\ profiles' = BlockProfile(profiles, reqs[i].found, reqs[i].p)
  /\ IF profiles[reqs[i].found].user_id = NoId
       THEN Answer(i, reqs[i], reqs[i].resp)
       ELSE Await(i, [reqs[i] EXCEPT !.pc = "blockAuth"])
  /\ UNCHANGED << authUsers, coach_clients, pillars, notes, tasks, metrics, nreq, env,
                  call >>

\* a handler that sends nothing when the identity provider returns an error
BanIdentityOrHang(i) ==
  /\ reqs[i].pc = "blockAuth" /\ ~reqs[i].p.x.authErr
  /\ \E t \in {BlockIdentity(Store, reqs[i].found, reqs[i].p)} :
       /\ authUsers' = t.S.authUsers
       /\ Answer(i, reqs[i], t.resp)
  /\ UNCHANGED << profiles, coach_clients, pillars, notes, tasks, metrics, nreq, env,
                  call >>

\* auth.admin.updateUserById has returned: 500 on an error, otherwise 200
BanIdentity(i) ==
  /\ reqs[i].pc = "blockAuth"
  /\ \E t \in {BlockIdentity(Store, reqs[i].found, reqs[i].p)} :
       /\ authUsers' = t.S.authUsers
       /\ Answer(i, reqs[i], t.resp)
  /\ UNCHANGED << profiles, coach_clients, pillars, notes, tasks, metrics, nreq, env,
                  call >>

\* a plan of one month with one bullet, and nothing else
LiveContent ==
  [vision |-> NoVision,
   monthly_plan |-> Plan(Month(T_ab, NoText, NoText, NoText), NoMonth, NoMonth, NoMonth),
   financials |-> NoFinancials]

\* add-roadmap and new-cycle-roadmap with financials only; update-roadmap
\* with a bullet, and with financials while the store answers 42P10
LiveAddRequests ==
  With({[BobPayload EXCEPT !.content = ContentOf("metrics")]}, {AllFine})

LiveUpdateRequests ==
  With({[BobPayload EXCEPT !.content = LiveContent]}, {AllFine})
  \cup With({[BobPayload EXCEPT !.content = ContentOf("metrics")]},
            {[AllFine EXCEPT !.metricsUpsert = "42P10"]})

LiveNewCycleRequests ==
  With({[BobPayload EXCEPT !.content = ContentOf("metrics")]}, {AllFine})

LiveBlockRequests ==
  { [email |-> "bob@x", blocked |-> "undefined",
     x |-> [updateErr |-> FALSE, authErr |-> FALSE]],
    [email |-> "bob@x", blocked |-> "false", x |-> [updateErr |-> FALSE, authErr |-> TRUE]] }

\* a request arrives at run i
Arrives(i) ==
  \/ \E r \in LiveAddRequests : StartAdd(i, r.p, r.x)
  \/ \E r \in LiveUpdateRequests : StartUpdate(i, r.p, r.x)
  \/ \E r \in LiveNewCycleRequests : StartNewCycle(i, r.p, r.x)
  \/ \E q \in LiveBlockRequests : StartBlock(i, q)

\* the outbound call run i is suspended at returns
Returns(i) ==
  \/ AddClient(i)
  \/ AddSelectRelation(i)
  \/ AddInsertRelation(i)
  \/ AddBatches(i)
  \/ ReadCycleNumber(i)
  \/ InsertNewCycle(i)
  \/ SelectExistingTasks(i)
  \/ InsertNewTask(i)
  \/ UpsertMetrics(i)
  \/ SelectMetrics(i)
  \/ UpdateOrInsertMetrics(i)
  \/ UpdateBlockedProfile(i)
  \/ BanIdentity(i)

NextLive == \E i \in Runs : Arrives(i) \/ Returns(i)

SpecLiveNoReturn == Init /\ [][NextLive]_vars

SpecLive == SpecLiveNoReturn /\ \A i \in Runs : WF_vars(Returns(i))

\* run i has a request without response
Pending(i) == reqs[i].pc # "idle"

\* run i has sent the response of its request
Responded(i) == reqs[i].pc = "idle" /\ reqs[i].resp.status # 0

\* C39: when every outbound call returns, every request to add-roadmap,
\* update-roadmap, new-cycle-roadmap and block-user gets its response, and
\* a run whose call has not returned sends nothing.
C39_EveryRequestAnswered ==
  /\ \A i \in Runs : Pending(i) ~> Responded(i)
  /\ [][\A i \in Runs : (Pending(i) /\ ~Returns(i)) => reqs'[i] = reqs[i]]_vars

\* C39 witness: a block-user request has been answered after the profile
\* update and the call of the identity provider, while the other run has
\* answered a roadmap request.
C39_Witness ==
  \E i, j \in Runs :
    /\ i # j
    /\ reqs[i].op = "block" /\ Responded(i) /\ reqs[i].resp.status = 500
    /\ reqs[j].op \in RoadmapOps /\ Responded(j) /\ reqs[j].resp.status = 200

\* C39, second half: without the assumption a request may stay without
\* response for ever.
C39_AnsweredWithoutReturn == \A i \in Runs : Pending(i) ~> Responded(i)

====
